---------------------------- MODULE Spec2Model ----------------------------
(***************************************************************************)
(* A model of the New Year countdown page: the Countdown clock             *)
(* (Countdown.js), the Fireworks simulation loop (Fireworks.js), the App   *)
(* that builds them with its entry point (App.js, index.js), the Modal     *)
(* (Modal.js) and the FactsManager, as they run on the browser's           *)
(* single-threaded event loop.  Every action is one synchronous piece of   *)
(* JavaScript: a public method called by a driver, an event handler, a     *)
(* timer callback, a tween callback or a frame callback, or what an async  *)
(* function does from one await to the next.  The continuation an await    *)
(* queues runs before the event loop takes its next task, so while one is  *)
(* queued no other action is enabled.                                      *)
(*                                                                         *)
(* Time is in milliseconds.  Math.floor(a / b) on integers is \div, the    *)
(* JavaScript remainder a % b keeps the sign of a (JsRem).                 *)
(***************************************************************************)
EXTENDS Integers, Sequences, FiniteSets, Bags, TLC

VARIABLES
    \* ---- environment
    now,               \* the wall clock, ms (new Date())
    \* ---- Countdown
    targetDate,        \* this.targetDate, an instant in two parts
    updateInterval,    \* settings.updateInterval, ms
    elementsPresent,   \* whether the four display elements exist in the DOM
    appFireworks,      \* whether window.app holds a 'fireworks' component
    intervalId,        \* this.intervalId; 0 is null
    intervalTimers,    \* the active setInterval timers, [id, since], each
                       \* with the targetDate and updateInterval of the
                       \* Countdown whose start() set it
    destroyed,         \* destroy() ran: this.elements is null
    displayed,         \* the textContent of the four display elements, by
                       \* unit: a text is the sequence of its digits
    displayTweens,     \* the tweens of animateNumberChange still running,
                       \* oldest first: for each update() that started
                       \* some, the texts their onComplete will write and
                       \* the instant they are over
    newYearCount,      \* executions of handleNewYear
    specialEvents,     \* executions of triggerSpecialEvent, per event name
    lastQuery,         \* <<>> or <<[years, diff, time]>>: the last
                       \* getRemainingTime(), its targetDate - now as whole
                       \* years and ms
    \* ---- Fireworks
    canvasPresent,     \* whether the canvas element exists: this.canvas, this.ctx
    settings,          \* this.settings: simultaneousFireworks,
                       \* fireworksPerBurst and colors, the palette, each
                       \* colour named by its hue
    isRunning,         \* this.isRunning
    animationId,       \* this.animationId; 0 is null
    frameRequests,     \* outstanding requestAnimationFrame handles
    fireworks,         \* this.fireworks: the live Projectiles
    particles,         \* this.particles: the live explosion points
    spawnTimers,       \* pending setTimeout callbacks of spawnBurst: the bag
                       \* of the calls with a timer pending, each the instant
                       \* of the call (at) and the delays (ms) of its timers
                       \* still pending, soonest first
    celebrationTimers, \* pending setTimeout callbacks of massiveCelebration
    nullDeref,         \* a handler threw on the null canvas or context
    externalSpawn,     \* a spawn came from outside autoSpawn
    \* ---- the page and the App
    gsapLoaded,        \* whether the gsap global exists
    matchMediaPresent, \* whether window.matchMedia exists
    modalPresent,      \* whether the modal and its content element exist
    ctaPresent,        \* whether the page has a .cta-button
    animatedPresent,   \* whether the page has an h1 and an h2, a .time-box
                       \* or a .mt-10: what Animations animates besides the
                       \* button
    appPhase,          \* "loading" before initializeApp(), "initializing"
                       \* while App.initialize() is at its await, then
                       \* "initialized" (isInitialized) or "failed"
                       \* (initialize() caught)
    fallbackRunning,   \* initializeFallback() ran
    effectsTimers,     \* pending 500 ms timers of initializeEffects
    listeners,         \* runs of setupEventListeners(): each added a
                       \* visibilitychange listener, and a click listener
                       \* to the button if there is one
    pageHidden,        \* document.hidden
    userEvent,         \* a click or a visibility change has been handled
    ctaTimers,         \* pending 200 ms timers of handleCTAClick: the fact
                       \* each will show, oldest first
    clickCount,        \* clicks on the button and calls of handleCTAClick
                       \* that drew a fact
    suspended,         \* the async functions that returned at an await and
                       \* have their continuation queued, the next to run
                       \* first: "initialize" (App.initialize) and
                       \* "initializeApp"
    oldModals,         \* the Modals an earlier App.initialize() built that
                       \* can still act, oldest first: for each, whether it
                       \* was destroyed, its isVisible and the callbacks of
                       \* its running tweens
    \* ---- Modal
    modalDisplay,      \* modal.style.display: "none" (the stylesheet) or "block"
    modalContent,      \* contentElement.textContent: a text; 0 is the page's
    modalBuilt,        \* whether new Modal() ran on this page: the listeners
                       \* of its initialize() are set
    modalDestroyed,    \* Modal.destroy() ran: this.modal and
                       \* this.contentElement are null
    isVisible,         \* this.isVisible
    bodyOverflow,      \* document.body.style.overflow: "" or "hidden"
    tweens,            \* callbacks of running tweens not yet called: the
                       \* onStart of show(), the onComplete of hide()
    contentTweens,     \* the texts the onComplete callbacks of the running
                       \* tweens of updateContent will write, oldest first
    lastCall,          \* the last of show() and hide() called on the Modal
                       \* at hand, or "none"
    \* ---- FactsManager
    factsLength,       \* this.facts.length
    usedIndices,       \* this.usedIndices, facts numbered from 1
    lastFact           \* the fact the last getRandomFact() of the
                       \* FactsManager at hand returned; 0 is none

countdownVars == <<targetDate, updateInterval, elementsPresent, appFireworks, intervalId,
                   intervalTimers, destroyed, displayed, displayTweens,
                   newYearCount, specialEvents, lastQuery>>
fireworksVars == <<canvasPresent, settings, isRunning, animationId, frameRequests,
                   fireworks, particles, spawnTimers, celebrationTimers,
                   nullDeref, externalSpawn>>
\* what the Countdown does not touch of the Fireworks
loopVars == <<canvasPresent, settings, isRunning, animationId, frameRequests,
              fireworks, particles, nullDeref>>
\* the page as the scripts find it
domVars == <<gsapLoaded, matchMediaPresent, modalPresent, ctaPresent, animatedPresent>>
appVars == <<domVars, appPhase, fallbackRunning, effectsTimers, listeners, pageHidden,
             userEvent, ctaTimers, clickCount, suspended, oldModals>>
modalVars == <<modalDisplay, modalContent, modalBuilt, modalDestroyed, isVisible,
               bodyOverflow, tweens, contentTweens, lastCall>>
factsVars == <<factsLength, usedIndices, lastFact>>
pageVars == <<appVars, modalVars, factsVars>>
vars == <<now, countdownVars, fireworksVars, pageVars>>

\* no continuation is queued: the event loop takes its next task
idle == suspended = <<>>

---------------------------------------------------------------------------
(* Bounds of the model *)

\* a 1 January 00:00:00 as an instant: the wall clock runs around it
TargetDate == 200000000
\* the wall clock is sampled HalfSecond ms before and after every instant
\* of interest, and at it
HalfSecond == 500
\* handleNewYear is followed at most this many times
MaxNewYear == 2
\* each special event is followed at most this many times
MaxEvents == 2
\* getRemainingTime() is sampled on durations of up to MaxDays days
MaxDays == 1
\* fixed-point units to one pixel, and to opacity 1
Scale == 10000
\* the farthest target of a Projectile, pixels from its launch point
MaxDistance == 5
\* settings.particleCount as configured: explosion points per burst
ParticleCount == 2
\* settings.simultaneousFireworks and settings.fireworksPerBurst as
\* configured are at most this
MaxTarget == 2
\* live Projectiles, live explosion points, pending spawn timers and
\* outstanding frame requests the model follows
MaxFireworks == 2
MaxParticles == 4
MaxTimers == 2
MaxFrames == 2
\* the largest count of an outside spawnBurst(count)
MaxBurst == 2
\* tweens of one kind the model follows at a time
MaxTweens == 2
\* pending effects timers, registered listeners of one kind, running
\* interval timers and earlier Modals the model follows at a time
MaxSetups == 2
\* clicks on the button and calls of handleCTAClick the model follows
MaxClicks == 1
\* updates whose tweens of animateNumberChange are running at a time
MaxDisplayTweens == 1
\* facts the model follows addFact to push
MaxAdded == 1
\* the tween of animateNumberChange lasts 0.1 s there and 0.1 s back
TweenDuration == 200
\* a day in ms, and a common year in days
DayMs == 86400000
YearDays == 365
\* this.facts.length and this.resetThreshold of the FactsManager
FactsCount == 15
ResetThreshold == 5

---------------------------------------------------------------------------
(* The wall clock *)

\* remaining times (ms before the target) around which the clock is sampled:
\* the target itself, the three special moments, one day, and
\* 1 day 1 hour 1 minute 1 second
Moments == {0, 60000, 600000, 3600000, 86400000, 90061000}

Instants ==
    {TargetDate - (m + j * HalfSecond) : m \in Moments, j \in {-1, 0, 1}}

\* non-negative durations on which the decomposition is sampled: every
\* field at its least and greatest values, with and without a part second
Durations ==
    {d * 86400000 + h * 3600000 + m * 60000 + sec * 1000 + ms :
        d \in 0..MaxDays, h \in {0, 1, 23}, m \in {0, 1, 59}, sec \in {0, 1, 59},
        ms \in {0, 1, 999}}

---------------------------------------------------------------------------
(* Countdown: pure helpers *)

JsRem(a, b) == IF a >= 0 THEN a % b ELSE -((-a) % b)

TimeUnits(d, h, m, s) == [days |-> d, hours |-> h, minutes |-> m, seconds |-> s]

\* calculateTimeUnits with the hours left unreduced (hours instead of
\* hours % 24)
calculateTimeUnitsUnwrapped(diff) ==
    LET seconds == diff \div 1000
        minutes == seconds \div 60
        hours   == minutes \div 60
        days    == hours \div 24
    IN  TimeUnits(days, hours, JsRem(minutes, 60), JsRem(seconds, 60))

calculateTimeUnits(diff) ==
    LET seconds == diff \div 1000
        minutes == seconds \div 60
        hours   == minutes \div 60
        days    == hours \div 24
    IN  TimeUnits(days, JsRem(hours, 24), JsRem(minutes, 60), JsRem(seconds, 60))

Units == {"days", "hours", "minutes", "seconds"}

\* String(value): the decimal digits of an integer, -1 for the minus sign
RECURSIVE Digits(_)
Digits(n) ==
    IF n < 0 THEN <<-1>> \o Digits(-n)
    ELSE IF n < 10 THEN <<n>>
    ELSE Append(Digits(n \div 10), n % 10)

\* text.padStart(length, fill) with a fill of one character
RECURSIVE padStart(_, _, _)
padStart(text, length, fill) ==
    IF Len(text) >= length THEN text ELSE padStart(<<fill>> \o text, length, fill)

\* String(value).padStart(2, '0')
formattedValue(value) == padStart(Digits(value), 2, 0)

\* the four elements all reading text
AllReading(text) == [u \in Units |-> text]

\* An instant is held in two parts, [years, at]: at ms, and years common
\* years after that.  A target a year ahead is beyond the integers of the
\* model when counted in ms.
Instant(ms) == [years |-> 0, at |-> ms]

\* defaults.targetDate of a Countdown constructed at t: 1 January of the
\* year after t's.  TargetDate is a 1 January, and t is in the year before
\* it or in the year after it.
defaultTargetDate(t) ==
    IF t < TargetDate THEN Instant(TargetDate) ELSE [years |-> 1, at |-> TargetDate]

\* whether target - t <= 0
elapsed(target, t) == target.years = 0 /\ target.at - t <= 0

\* calculateTimeUnits(target - t).  For a target years ahead the whole days
\* of the difference are counted apart from the rest of a day, which has
\* the hours, minutes and seconds.
timeLeft(target, t) ==
    IF target.years = 0
    THEN calculateTimeUnits(target.at - t)
    ELSE LET near  == target.at - t
             whole == IF near >= 0
                      THEN near \div DayMs
                      ELSE -((DayMs - 1 - near) \div DayMs)
             part  == calculateTimeUnits(near - whole * DayMs)
         IN  [part EXCEPT !.days = target.years * YearDays + whole]

\* getRemainingTime(): the decomposition of targetDate - now
getRemainingTime(t) == timeLeft(targetDate, t)

EventNames == {"hour_to_new_year", "ten_minutes_to_new_year", "one_minute_to_new_year"}

\* the events checkSpecialMoments(time) triggers
checkSpecialMoments(time) ==
    {e \in EventNames :
        \/ e = "hour_to_new_year" /\ time = TimeUnits(0, 1, 0, 0)
        \/ e = "ten_minutes_to_new_year" /\ time = TimeUnits(0, 0, 10, 0)
        \/ e = "one_minute_to_new_year" /\ time = TimeUnits(0, 0, 1, 0)}

\* stop() applied to an interval id and the active timers
stop(id, timers) ==
    IF id # 0
    THEN [id |-> 0, timers |-> {t \in timers : t.id # id}]
    ELSE [id |-> id, timers |-> timers]

\* the handle setInterval returns: a positive integer no active timer has
NewTimerId(timers) ==
    CHOOSE n \in 1..(Cardinality(timers) + 1) :
        /\ \A t \in timers : t.id # n
        /\ \A k \in 1..(n - 1) : \E t \in timers : t.id = k

---------------------------------------------------------------------------
(* Timers of the Fireworks the Countdown's celebration also sets *)

\* the number of timers pending in a bag of calls
RECURSIVE timersIn(_)
timersIn(calls) ==
    IF BagToSet(calls) = {}
    THEN 0
    ELSE LET call == CHOOSE c \in BagToSet(calls) : TRUE
         IN  Len(call.delays) + timersIn(calls (-) SetToBag({call}))

\* spawnBurst(count): the pending timers after count more are set, the i-th
\* (from 0) i * 150 ms after the call
spawnBurst(timers, count) ==
    IF count <= 0
    THEN timers
    ELSE timers (+) SetToBag({[at |-> now,
                               delays |-> [i \in 1..count |-> (i - 1) * 150]]})

---------------------------------------------------------------------------
(* Countdown: handlers *)

\* massiveCelebration(): spawnBurst(15) now, spawnBurst(10) and spawnBurst(8)
\* from two timers
massiveCelebration ==
    /\ spawnTimers' = spawnBurst(spawnTimers, 15)
    /\ celebrationTimers' =
           celebrationTimers \o <<[count |-> 10, due |-> now + 1000],
                                  [count |-> 8, due |-> now + 2000]>>
    /\ externalSpawn' = TRUE

\* handleNewYear() but for its stop(), which the callers apply.  On a
\* destroyed Countdown (dead) showCongratulations() throws on the null
\* elements, before the celebration.
handleNewYear(dead) ==
    /\ newYearCount < MaxNewYear
    /\ newYearCount' = newYearCount + 1
    /\ displayed' = IF elementsPresent /\ ~dead
                    THEN AllReading(<<0, 0>>)
                    ELSE displayed
    /\ IF appFireworks /\ ~dead
       THEN massiveCelebration
       ELSE UNCHANGED <<spawnTimers, celebrationTimers, externalSpawn>>
    /\ UNCHANGED <<specialEvents, displayTweens>>

\* the units whose element updateDisplay(time) finds reading another text
\* than the time's
changedUnits(time) ==
    IF elementsPresent
    THEN {u \in Units : displayed[u] # formattedValue(time[u])}
    ELSE {}

\* whether update() throws, on a Countdown with this target, destroyed
\* (dead) or not: on the null elements of a destroyed Countdown, and in
\* animateNumberChange when there is no gsap
updateThrows(target, dead) ==
    \/ dead
    \/ /\ ~elapsed(target, now)
       /\ ~gsapLoaded
       /\ changedUnits(timeLeft(target, now)) # {}

\* update() but for the stop() inside handleNewYear: updateDisplay() hands
\* a tween to gsap for each element it finds reading another text, and
\* checkSpecialMoments() comes after it
update(target, dead) ==
    LET time    == timeLeft(target, now)
        hit     == checkSpecialMoments(time)
        changed == changedUnits(time)
    IN  IF elapsed(target, now)
        THEN handleNewYear(dead)
        ELSE IF updateThrows(target, dead)
        THEN UNCHANGED <<displayed, displayTweens, newYearCount, specialEvents,
                         spawnTimers, celebrationTimers, externalSpawn>>
        ELSE /\ \A e \in hit : specialEvents[e] < MaxEvents
             /\ specialEvents' =
                    [e \in EventNames |->
                        IF e \in hit THEN specialEvents[e] + 1 ELSE specialEvents[e]]
             /\ IF changed = {}
                THEN UNCHANGED displayTweens
                ELSE /\ Len(displayTweens) < MaxDisplayTweens
                     /\ displayTweens' =
                            Append(displayTweens,
                                   [texts |-> [u \in changed |-> formattedValue(time[u])],
                                    due |-> now + TweenDuration])
             /\ UNCHANGED <<displayed, newYearCount, spawnTimers, celebrationTimers,
                            externalSpawn>>

\* the interval id and timers update() leaves a Countdown with this target
\* and this intervalId: handleNewYear stops the clock
AfterUpdate(target, id) ==
    IF elapsed(target, now)
    THEN stop(id, intervalTimers)
    ELSE [id |-> id, timers |-> intervalTimers]

\* start() past its guard, on a Countdown with this intervalId, target and
\* updateInterval: update(), then the timer unless update() threw
startTimer(id, target, interval, dead) ==
    /\ update(target, dead)
    /\ IF updateThrows(target, dead)
       THEN /\ intervalId' = AfterUpdate(target, id).id
            /\ intervalTimers' = AfterUpdate(target, id).timers
       ELSE LET new == NewTimerId(AfterUpdate(target, id).timers)
            IN  /\ intervalId' = new
                /\ intervalTimers' =
                       AfterUpdate(target, id).timers
                           \cup {[id |-> new, since |-> now, target |-> target,
                                  interval |-> interval]}

\* start() without its guard on intervalId
StartUnguarded ==
    /\ idle
    /\ startTimer(intervalId, targetDate, updateInterval, destroyed)
    /\ UNCHANGED <<pageVars, now, targetDate, updateInterval, elementsPresent, appFireworks,
                   destroyed, lastQuery, loopVars>>

\* Countdown.start(): when update() throws no timer is set
Start ==
    /\ idle
    /\ intervalId = 0
    /\ startTimer(intervalId, targetDate, updateInterval, destroyed)
    /\ UNCHANGED <<pageVars, now, targetDate, updateInterval, elementsPresent, appFireworks,
                   destroyed, lastQuery, loopVars>>

\* Countdown.start() on a running clock returns at once
StartRunning ==
    /\ idle
    /\ intervalId # 0
    /\ UNCHANGED vars

\* Countdown.stop()
Stop ==
    /\ idle
    /\ intervalId' = stop(intervalId, intervalTimers).id
    /\ intervalTimers' = stop(intervalId, intervalTimers).timers
    /\ UNCHANGED <<pageVars, now, targetDate, updateInterval, elementsPresent, appFireworks,
                   destroyed, displayed, displayTweens, newYearCount, specialEvents,
                   lastQuery, fireworksVars>>

\* Countdown.destroy(): stop(), and this.elements = null
Destroy ==
    /\ idle
    /\ intervalId' = stop(intervalId, intervalTimers).id
    /\ intervalTimers' = stop(intervalId, intervalTimers).timers
    /\ destroyed' = TRUE
    /\ UNCHANGED <<pageVars, now, targetDate, updateInterval, elementsPresent, appFireworks,
                   displayed, displayTweens, newYearCount, specialEvents, lastQuery,
                   fireworksVars>>

\* the onComplete callbacks of the oldest tweens of animateNumberChange,
\* those one update() started, once their duration has passed: each writes
\* its text to its element
DisplayTween ==
    /\ idle
    /\ displayTweens # <<>>
    /\ now >= Head(displayTweens).due
    /\ displayed' = [u \in Units |->
                        IF u \in DOMAIN Head(displayTweens).texts
                        THEN Head(displayTweens).texts[u]
                        ELSE displayed[u]]
    /\ displayTweens' = Tail(displayTweens)
    /\ UNCHANGED <<pageVars, now, targetDate, updateInterval, elementsPresent, appFireworks,
                   intervalId, intervalTimers, destroyed, newYearCount,
                   specialEvents, lastQuery, fireworksVars>>

\* the setInterval callback of timer t, due its updateInterval after it was
\* set or last ran: update() on the Countdown that set it, which is the
\* one at hand when intervalId names the timer, and else an earlier one of
\* the App, still running.  The timer stays when update() throws.
IntervalTick(t) ==
    /\ idle
    /\ t \in intervalTimers
    /\ now >= t.since + t.interval
    /\ update(t.target, t.id = intervalId /\ destroyed)
    /\ intervalId' = IF t.id = intervalId
                     THEN AfterUpdate(t.target, t.id).id
                     ELSE intervalId
    /\ intervalTimers' =
           {IF u = t THEN [u EXCEPT !.since = now] ELSE u :
               u \in AfterUpdate(t.target, t.id).timers}
    /\ UNCHANGED <<pageVars, now, targetDate, updateInterval, elementsPresent, appFireworks,
                   destroyed, lastQuery, loopVars>>

\* Countdown.getRemainingTime()
GetRemainingTime ==
    /\ idle
    /\ lastQuery' = <<[years |-> targetDate.years, diff |-> targetDate.at - now,
                       time |-> getRemainingTime(now)]>>
    /\ UNCHANGED <<pageVars, now, targetDate, updateInterval, elementsPresent, appFireworks,
                   intervalId, intervalTimers, destroyed, displayed, displayTweens,
                   newYearCount, specialEvents, fireworksVars>>

\* the pending timer of massiveCelebration that runs next: the one due
\* first, the older of two due together
NextCelebration ==
    CHOOSE i \in 1..Len(celebrationTimers) :
        \A j \in 1..Len(celebrationTimers) :
            \/ celebrationTimers[i].due < celebrationTimers[j].due
            \/ celebrationTimers[i].due = celebrationTimers[j].due /\ i <= j

\* the 1000 ms and 2000 ms timers of massiveCelebration, once due:
\* spawnBurst(count)
CelebrationTimer ==
    /\ idle
    /\ celebrationTimers # <<>>
    /\ now >= celebrationTimers[NextCelebration].due
    /\ spawnTimers' = spawnBurst(spawnTimers, celebrationTimers[NextCelebration].count)
    /\ celebrationTimers' =
           SubSeq(celebrationTimers, 1, NextCelebration - 1)
               \o SubSeq(celebrationTimers, NextCelebration + 1, Len(celebrationTimers))
    /\ UNCHANGED <<pageVars, now, countdownVars, loopVars, externalSpawn>>

\* the setInterval callback of any active timer
IntervalCallback == \E t \in intervalTimers : IntervalTick(t)

\* the wall clock moves on, to a sampled instant or to the instant a
\* celebration timer is due
AdvanceTime ==
    /\ idle
    /\ \E t \in Instants \cup {celebrationTimers[i].due : i \in 1..Len(celebrationTimers)} :
           t > now /\ now' = t
    /\ UNCHANGED <<pageVars, countdownVars, fireworksVars>>

---------------------------------------------------------------------------
(* Fireworks: the simulated points.  Lengths, speeds and opacities are     *)
(* fixed-point numbers, Scale units to one pixel (or to opacity 1).  A     *)
(* point's position and trail only feed the canvas; what decides its life  *)
(* is kept: the distance a Projectile has travelled along its heading, and *)
(* the opacity of an explosion point.  A Projectile also keeps the target  *)
(* and the colour it was made with; a colour is named by its hue.          *)

\* launch-to-target distances of new Projectiles (calculateDistance): the
\* target on the launch point, and MaxDistance pixels away
Distances == {0, MaxDistance * Scale}
\* Math.random() * 0.1 + 0.9
Alphas == {(9 * Scale) \div 10}
\* Math.random() * 0.015 + 0.01
Decays == {(24 * Scale) \div 1000}

\* the targets spawnFirework draws when none is given:
\* randomRange(100, width - 100), randomRange(150, height * 0.5)
RandomTargets == {<<300, 200>>}

\* an argument a caller leaves out (undefined, or the default null), and one
\* it gives
NotGiven == <<>>
Given(v) == <<v>>

\* x || fallback on a number: undefined and 0 are both falsy
OrRandom(x, fallback) == IF x = NotGiven \/ x[1] = 0 THEN fallback ELSE x[1]

\* color || fallback on a colour object: only the missing one is falsy
OrRandomColor(color, fallback) == IF color = NotGiven THEN fallback ELSE color[1]

\* new FireworkParticle(x1, y1, x2, y2, ctx, color): the constructor and
\* initialize(), the launch point folded into the distance
FireworkParticle(targetX, targetY, color, distance) ==
    [targetX |-> targetX, targetY |-> targetY, color |-> color,
     distance |-> distance, currentDistance |-> 0, speed |-> 2 * Scale]

\* update() that moves the point before it speeds it up
FireworkUpdateMoveFirst(p) ==
    [p EXCEPT !.speed = (p.speed * 102) \div 100,
              !.currentDistance = p.currentDistance + p.speed]

\* update() that scales its step by 1 / distance: on a zero distance the
\* position is NaN and no comparison with it holds; -1 stands for the NaN
FireworkUpdateNormalised(p) ==
    LET speed == (p.speed * 102) \div 100
    IN  [p EXCEPT !.speed = speed,
                  !.currentDistance = IF p.distance = 0
                                      THEN -1
                                      ELSE p.currentDistance + speed]

\* FireworkParticle.update(): the point after the tick
FireworkUpdate(p) ==
    LET speed == (p.speed * 102) \div 100
    IN  [p EXCEPT !.speed = speed, !.currentDistance = p.currentDistance + speed]

\* the value FireworkParticle.update() returns: the target is reached
FireworkReached(p) == p.currentDistance >= p.distance

\* the position of Projectile p: the point currentDistance along its way to
\* its target
Position(p) == <<p.targetX, p.targetY, p.currentDistance>>

\* new ExplosionParticle(x, y, ctx, color): the constructor and
\* initialize(), with the alpha and the decay initialize() draws
ExplosionParticle(origin, color, alpha, decay) ==
    [origin |-> origin, color |-> color, alpha |-> alpha, decay |-> decay]

\* createParticles that puts the burst on the Projectile's target
createParticlesAtTarget(p) ==
    [1..ParticleCount ->
        {ExplosionParticle(<<p.targetX, p.targetY, p.distance>>, p.color, a, d) :
            a \in Alphas, d \in Decays}]

\* createParticles(firework.x, firework.y, firework.color) for the exploded
\* Projectile p: the bursts of particleCount new points it may push
createParticles(p) ==
    [1..ParticleCount ->
        {ExplosionParticle(Position(p), p.color, a, d) : a \in Alphas, d \in Decays}]

\* update() that forgets to fade the point
ExplosionUpdateNoDecay(q) == q

\* ExplosionParticle.update(): the point after the tick
ExplosionUpdate(q) == [q EXCEPT !.alpha = q.alpha - q.decay]

\* the value ExplosionParticle.update() returns: alpha <= 0.01
ExplosionFaded(q) == q.alpha * 100 <= Scale

---------------------------------------------------------------------------
(* Fireworks: the loop *)

\* the handle requestAnimationFrame returns: one no outstanding request has
NewFrameId(requests) ==
    CHOOSE n \in 1..(Cardinality(requests) + 1) :
        /\ n \notin requests
        /\ \A k \in 1..(n - 1) : k \in requests

\* autoSpawn(): the count it hands to spawnBurst, 0 when it spawns nothing
autoSpawn(live) ==
    IF live < settings.simultaneousFireworks
    THEN LET needed == IF settings.simultaneousFireworks - live < settings.fireworksPerBurst
                       THEN settings.simultaneousFireworks - live
                       ELSE settings.fireworksPerBurst
         IN  IF needed > 0 THEN needed ELSE 0
    ELSE 0

\* updateFireworks(): every Projectile after its update(), those that reached
\* their target spliced out; the Projectiles left and how many exploded
updateFireworks(fws) ==
    LET moved == [i \in 1..Len(fws) |-> FireworkUpdate(fws[i])]
        left  == SelectSeq(moved, LAMBDA p : ~FireworkReached(p))
        gone  == SelectSeq(moved, FireworkReached)
    IN  [fireworks |-> left, exploded |-> Len(moved) - Len(left),
         \* the exploded Projectiles in the order the loop, which runs from
         \* the last index down, meets them
         bursts |-> [i \in 1..Len(gone) |-> gone[Len(gone) + 1 - i]]]

\* the explosion points the createParticles calls of one updateFireworks()
\* may push, for the exploded Projectiles in order
RECURSIVE Bursts(_)
Bursts(exploded) ==
    IF exploded = <<>>
    THEN {<<>>}
    ELSE {burst \o rest : burst \in createParticles(Head(exploded)),
                          rest \in Bursts(Tail(exploded))}

\* what updateFireworks() and updateParticles() draw: every point as it is
\* when its draw() is called, before its update()
drawnFireworks(fws) == [i \in 1..Len(fws) |-> fws[i].currentDistance]
drawnParticles(parts) == [i \in 1..Len(parts) |-> parts[i].alpha]

\* updateParticles(): every explosion point after its update(), the faded
\* ones spliced out
updateParticles(parts) ==
    LET moved == [i \in 1..Len(parts) |-> ExplosionUpdate(parts[i])]
    IN  SelectSeq(moved, LAMBDA q : ~ExplosionFaded(q))

\* loop() whose tick calls autoSpawn() before updateFireworks()
loopSpawnFirst(running, requests, fws, parts) ==
    IF ~running
    THEN /\ frameRequests' = requests
         /\ fireworks' = fws
         /\ particles' = parts
         /\ UNCHANGED <<animationId, spawnTimers, nullDeref>>
    ELSE IF ~canvasPresent
    THEN /\ nullDeref' = TRUE
         /\ frameRequests' = requests
         /\ fireworks' = fws
         /\ particles' = parts
         /\ UNCHANGED <<animationId, spawnTimers>>
    ELSE LET flown  == updateFireworks(fws)
             born   == flown.exploded * ParticleCount
             needed == autoSpawn(Len(fws))
             id     == NewFrameId(requests)
         IN  /\ Len(parts) + born <= MaxParticles
             /\ timersIn(spawnTimers) + needed <= MaxTimers
             /\ Cardinality(requests) < MaxFrames
             /\ fireworks' = flown.fireworks
             /\ \E new \in Bursts(flown.bursts) :
                    particles' = updateParticles(parts \o new)
             /\ spawnTimers' = spawnBurst(spawnTimers, needed)
             /\ animationId' = id
             /\ frameRequests' = requests \cup {id}
             /\ UNCHANGED nullDeref

\* loop() called with the flag `running`, `requests` outstanding and the
\* collections fws and parts: a tick body when running, else nothing
loop(running, requests, fws, parts) ==
    IF ~running
    THEN /\ frameRequests' = requests
         /\ fireworks' = fws
         /\ particles' = parts
         /\ UNCHANGED <<animationId, spawnTimers, nullDeref>>
    ELSE IF ~canvasPresent
    THEN \* this.ctx.clearRect(...) on the null ctx throws
         /\ nullDeref' = TRUE
         /\ frameRequests' = requests
         /\ fireworks' = fws
         /\ particles' = parts
         /\ UNCHANGED <<animationId, spawnTimers>>
    ELSE LET flown  == updateFireworks(fws)
             born   == flown.exploded * ParticleCount
             needed == autoSpawn(Len(flown.fireworks))
             id     == NewFrameId(requests)
         IN  /\ Len(parts) + born <= MaxParticles
             /\ timersIn(spawnTimers) + needed <= MaxTimers
             /\ Cardinality(requests) < MaxFrames
             /\ fireworks' = flown.fireworks
             \* createParticles(): particleCount new points for each explosion
             /\ \E new \in Bursts(flown.bursts) :
                    particles' = updateParticles(parts \o new)
             \* spawnBurst(needed)
             /\ spawnTimers' = spawnBurst(spawnTimers, needed)
             /\ animationId' = id
             /\ frameRequests' = requests \cup {id}
             /\ UNCHANGED nullDeref

\* start() that keeps the collections it finds
FwStartKeeping ==
    /\ idle
    /\ ~(isRunning \/ ~canvasPresent)
    /\ isRunning' = TRUE
    /\ loop(TRUE, frameRequests, fireworks, particles)
    /\ UNCHANGED <<pageVars, now, countdownVars, canvasPresent, settings, celebrationTimers,
                   externalSpawn>>

\* start() that sets the flag and the collections but never calls loop()
FwStartNoLoop ==
    /\ idle
    /\ ~(isRunning \/ ~canvasPresent)
    /\ isRunning' = TRUE
    /\ fireworks' = <<>>
    /\ particles' = <<>>
    /\ UNCHANGED <<pageVars, now, countdownVars, canvasPresent, settings, animationId,
                   frameRequests, spawnTimers, celebrationTimers, nullDeref,
                   externalSpawn>>

\* Fireworks.start()
FwStart ==
    /\ idle
    /\ ~(isRunning \/ ~canvasPresent)
    /\ isRunning' = TRUE
    /\ loop(TRUE, frameRequests, <<>>, <<>>)
    /\ UNCHANGED <<pageVars, now, countdownVars, canvasPresent, settings, celebrationTimers,
                   externalSpawn>>

\* Fireworks.start() on a running loop or without a context returns at once
FwStartNoop ==
    /\ idle
    /\ isRunning \/ ~canvasPresent
    /\ UNCHANGED vars

\* Fireworks.stop()
FwStop ==
    /\ idle
    /\ isRunning' = FALSE
    /\ animationId' = 0
    /\ frameRequests' = frameRequests \ {animationId}
    /\ UNCHANGED <<pageVars, now, countdownVars, canvasPresent, settings, fireworks, particles,
                   spawnTimers, celebrationTimers, nullDeref, externalSpawn>>

\* pause() that also empties the collections
FwPauseClearing ==
    /\ idle
    /\ isRunning' = FALSE
    /\ fireworks' = <<>>
    /\ particles' = <<>>
    /\ UNCHANGED <<pageVars, now, countdownVars, canvasPresent, settings, animationId,
                   frameRequests, spawnTimers, celebrationTimers, nullDeref,
                   externalSpawn>>

\* Fireworks.pause()
FwPause ==
    /\ idle
    /\ isRunning' = FALSE
    /\ UNCHANGED <<pageVars, now, countdownVars, canvasPresent, settings, animationId,
                   frameRequests, fireworks, particles, spawnTimers,
                   celebrationTimers, nullDeref, externalSpawn>>

\* resume() that starts over with empty collections
FwResumeClearing ==
    /\ idle
    /\ ~isRunning
    /\ isRunning' = TRUE
    /\ loop(TRUE, frameRequests, <<>>, <<>>)
    /\ UNCHANGED <<pageVars, now, countdownVars, canvasPresent, settings, celebrationTimers,
                   externalSpawn>>

\* Fireworks.resume() on a loop that is not running
FwResume ==
    /\ idle
    /\ ~isRunning
    /\ isRunning' = TRUE
    /\ loop(TRUE, frameRequests, fireworks, particles)
    /\ UNCHANGED <<pageVars, now, countdownVars, canvasPresent, settings, celebrationTimers,
                   externalSpawn>>

\* Fireworks.resume() on a running loop does nothing
FwResumeNoop ==
    /\ idle
    /\ isRunning
    /\ UNCHANGED vars

\* a frame callback whose loop() does not look at isRunning
FrameUnguarded(f) ==
    /\ idle
    /\ f \in frameRequests
    /\ loop(TRUE, frameRequests \ {f}, fireworks, particles)
    /\ UNCHANGED <<pageVars, now, countdownVars, canvasPresent, settings, isRunning,
                   celebrationTimers, externalSpawn>>

\* the requestAnimationFrame callback of request f: loop()
Frame(f) ==
    /\ idle
    /\ f \in frameRequests
    /\ loop(isRunning, frameRequests \ {f}, fireworks, particles)
    /\ UNCHANGED <<pageVars, now, countdownVars, canvasPresent, settings, isRunning,
                   celebrationTimers, externalSpawn>>

\* the frame callback of any outstanding request
FrameCallback == \E f \in frameRequests : Frame(f)

\* the defaults of new Fireworks() but for particleCount
defaults ==
    [simultaneousFireworks |-> 8, fireworksPerBurst |-> 8,
     colors |-> <<0, 15, 30, 45, 60, 120, 180, 200, 240, 270, 300, 330, 50, 220,
                  40, 150>>]

\* getRandomColor(): colors[Math.floor(Math.random() * colors.length)],
\* followed for the least and the greatest value Math.random() can give:
\* the first and the last colour of the palette
getRandomColor == {settings.colors[1], settings.colors[Len(settings.colors)]}

\* spawnFirework(x, y, color): one more Projectile, or a throw on the null
\* canvas (this.canvas.width) before anything is pushed
spawnFirework(x, y, color) ==
    IF ~canvasPresent
    THEN /\ nullDeref' = TRUE
         /\ UNCHANGED fireworks
    ELSE /\ Len(fireworks) < MaxFireworks
         /\ \E random \in RandomTargets, hue \in getRandomColor, d \in Distances :
                fireworks' = Append(fireworks,
                                    FireworkParticle(OrRandom(x, random[1]),
                                                     OrRandom(y, random[2]),
                                                     OrRandomColor(color, hue), d))
         /\ UNCHANGED nullDeref

\* Fireworks.spawnFirework(x, y, color) called from outside
SpawnFireworkAt(x, y, color) ==
    /\ idle
    /\ spawnFirework(x, y, color)
    /\ externalSpawn' = TRUE
    /\ UNCHANGED <<pageVars, now, countdownVars, canvasPresent, settings, isRunning, animationId,
                   frameRequests, particles, spawnTimers, celebrationTimers>>

\* Fireworks.spawnFirework() called from outside with no argument
SpawnFirework == SpawnFireworkAt(NotGiven, NotGiven, NotGiven)

\* the coordinates and colours a caller passes: the left and top edge, a
\* point inside, the two first colours of the default palette
Coordinates == {0, 7}
Hues == {0, 15}

\* Fireworks.spawnFirework(x, y, color) with any of its arguments given
SpawnFireworkArgs ==
    \E x \in {NotGiven} \cup {Given(v) : v \in Coordinates},
       y \in {NotGiven} \cup {Given(v) : v \in Coordinates},
       color \in {NotGiven} \cup {Given(h) : h \in Hues} :
        SpawnFireworkAt(x, y, color)

\* Fireworks.spawnBurst(count) called from outside: count timers
SpawnBurst(count) ==
    /\ idle
    /\ timersIn(spawnTimers) + count <= MaxTimers
    /\ spawnTimers' = spawnBurst(spawnTimers, count)
    /\ externalSpawn' = TRUE
    /\ UNCHANGED <<pageVars, now, countdownVars, canvasPresent, settings, isRunning, animationId,
                   frameRequests, fireworks, particles, celebrationTimers, nullDeref>>

\* Fireworks.spawnBurst(count) with any count the model follows
SpawnBurstCall == \E count \in 1..MaxBurst : SpawnBurst(count)

\* Fireworks.spawnFirework() called from outside while the explosion of
\* every live Projectile still fits under MaxParticles, so that no tick waits
\* for room
SpawnWhenRoom ==
    /\ (Len(fireworks) + 1) * ParticleCount + Len(particles) <= MaxParticles
    /\ SpawnFirework

\* whether no pending timer of spawnBurst is due before the next of call
dueFirst(call) ==
    \A other \in BagToSet(spawnTimers) :
        call.at + Head(call.delays) <= other.at + Head(other.delays)

\* a setTimeout callback of spawnBurst: this.spawnFirework().  The timers
\* run in the order they are due, those due together in any order.
SpawnTimer ==
    /\ idle
    /\ \E call \in BagToSet(spawnTimers) :
           /\ dueFirst(call)
           /\ spawnTimers' =
                  (spawnTimers (-) SetToBag({call}))
                      (+) (IF Len(call.delays) > 1
                           THEN SetToBag({[call EXCEPT !.delays = Tail(@)]})
                           ELSE EmptyBag)
    /\ spawnFirework(NotGiven, NotGiven, NotGiven)
    /\ UNCHANGED <<pageVars, now, countdownVars, canvasPresent, settings, isRunning, animationId,
                   frameRequests, particles, celebrationTimers, externalSpawn>>

\* handleClick(event) for a click at clientX, clientY that reaches the
\* document, button telling whether its target is a BUTTON element:
\* initializeCanvas registers the listener only when the canvas exists
handleClick(clientX, clientY, button) ==
    IF canvasPresent /\ isRunning /\ ~button
    THEN /\ spawnFirework(Given(clientX), Given(clientY), NotGiven)
         /\ externalSpawn' = TRUE
    ELSE UNCHANGED <<fireworks, nullDeref, externalSpawn>>

\* a click at clientX, clientY on the document, not on a button and on no
\* element with a click listener of its own: handleClick(event) spawns
ClickAt(clientX, clientY) ==
    /\ idle
    /\ canvasPresent
    /\ isRunning
    /\ spawnFirework(Given(clientX), Given(clientY), NotGiven)
    /\ externalSpawn' = TRUE
    /\ UNCHANGED <<pageVars, now, countdownVars, canvasPresent, settings, isRunning, animationId,
                   frameRequests, particles, spawnTimers, celebrationTimers>>

\* a click inside the window
Click == ClickAt(300, 200)

\* a click on the left or the top edge of the window
ClickAtEdge == \E point \in {<<0, 200>>, <<300, 0>>, <<0, 0>>} : ClickAt(point[1], point[2])

\* a click while the loop is not running, or on a button: handleClick returns
ClickNoop ==
    /\ idle
    /\ canvasPresent
    /\ UNCHANGED vars

---------------------------------------------------------------------------
(* FactsManager *)

\* the facts, by their place in this.facts counted from 1
Facts(length) == 1..length

\* getRandomFact() on the used indices it finds: the facts it may return,
\* each with the used indices it leaves
getRandomFact(used, length) ==
    LET afterAll       == IF Cardinality(used) >= length THEN {} ELSE used
        afterThreshold == IF Cardinality(afterAll) >= ResetThreshold
                          THEN {}
                          ELSE afterAll
    IN  {[fact |-> f, used |-> afterThreshold \cup {f}] :
            f \in Facts(length) \ afterThreshold}

\* FactsManager.getRandomFact() called from outside
GetRandomFact ==
    /\ idle
    /\ \E r \in getRandomFact(usedIndices, factsLength) :
           /\ usedIndices' = r.used
           /\ lastFact' = r.fact
    /\ UNCHANGED <<now, countdownVars, fireworksVars, appVars, modalVars, factsLength>>

\* FactsManager.resetUsage()
ResetUsage ==
    /\ idle
    /\ usedIndices' = {}
    /\ UNCHANGED <<now, countdownVars, fireworksVars, appVars, modalVars, factsLength,
                   lastFact>>

\* FactsManager.addFact(fact) with the empty string or a text: only a text
\* is pushed
AddFact ==
    /\ idle
    /\ \E fact \in {<<>>, <<1>>} :
           IF fact # <<>>
           THEN /\ factsLength < FactsCount + MaxAdded
                /\ factsLength' = factsLength + 1
           ELSE UNCHANGED factsLength
    /\ UNCHANGED <<now, countdownVars, fireworksVars, appVars, modalVars, usedIndices,
                   lastFact>>

---------------------------------------------------------------------------
(* Modal.  gsap calls the onStart of a tween on a later tick of its own,   *)
(* and the onComplete when the tween's duration is over.                    *)

\* whether this.modal and this.contentElement are set
modalHeld == modalPresent /\ ~modalDestroyed

\* the texts of showLoading() and of showError() without a message
LoadingText == -1
ErrorText == -2

\* show(content): what it does to the modal; without gsap it throws after
\* it set the content and the display
show(content) ==
    IF ~modalHeld
    THEN UNCHANGED <<modalDisplay, modalContent, tweens>>
    ELSE /\ modalContent' = IF content = NotGiven THEN modalContent ELSE content[1]
         /\ modalDisplay' = "block"
         /\ IF gsapLoaded
            THEN /\ tweens.onStart < MaxTweens
                 /\ tweens' = [tweens EXCEPT !.onStart = @ + 1]
            ELSE UNCHANGED tweens

\* hide(): returns at once without the modal or while it is not visible
hide ==
    IF ~modalHeld \/ ~isVisible \/ ~gsapLoaded
    THEN UNCHANGED tweens
    ELSE /\ tweens.onComplete < MaxTweens
         /\ tweens' = [tweens EXCEPT !.onComplete = @ + 1]

\* updateContent(content, animate): the text is written at once, or by the
\* onComplete of a tween; without gsap the animated one throws
updateContent(content, animate) ==
    IF ~modalHeld \/ (animate /\ ~gsapLoaded)
    THEN UNCHANGED <<modalContent, contentTweens>>
    ELSE IF animate
    THEN /\ Len(contentTweens) < MaxTweens
         /\ contentTweens' = Append(contentTweens, content)
         /\ UNCHANGED modalContent
    ELSE /\ modalContent' = content
         /\ UNCHANGED contentTweens

\* Modal.show(content) called from outside
ModalShow ==
    /\ idle
    /\ \E content \in {NotGiven, Given(1), Given(2)} : show(content)
    /\ lastCall' = "show"
    /\ UNCHANGED <<modalBuilt, modalDestroyed, isVisible, bodyOverflow, contentTweens>>
    /\ UNCHANGED <<now, countdownVars, fireworksVars, appVars, factsVars>>

\* Modal.hide() called from outside
ModalHide ==
    /\ idle
    /\ hide
    /\ lastCall' = "hide"
    /\ UNCHANGED <<modalDisplay, modalContent, modalBuilt, modalDestroyed, isVisible,
                   bodyOverflow, contentTweens>>
    /\ UNCHANGED <<now, countdownVars, fireworksVars, appVars, factsVars>>

\* Modal.toggle(content): hide() when visible, show(content) otherwise
ModalToggle ==
    /\ idle
    /\ IF isVisible
       THEN /\ hide
            /\ lastCall' = "hide"
            /\ UNCHANGED <<modalDisplay, modalContent>>
       ELSE /\ \E content \in {NotGiven, Given(1)} : show(content)
            /\ lastCall' = "show"
    /\ UNCHANGED <<modalBuilt, modalDestroyed, isVisible, bodyOverflow, contentTweens>>
    /\ UNCHANGED <<now, countdownVars, fireworksVars, appVars, factsVars>>

\* Modal.updateContent(content, animate) called from outside
UpdateContent ==
    /\ idle
    /\ \E content \in {1, 2}, animate \in BOOLEAN : updateContent(content, animate)
    /\ UNCHANGED <<modalDisplay, modalBuilt, modalDestroyed, isVisible, bodyOverflow, tweens,
                   lastCall>>
    /\ UNCHANGED <<now, countdownVars, fireworksVars, appVars, factsVars>>

\* Modal.showLoading()
ShowLoading ==
    /\ idle
    /\ updateContent(LoadingText, TRUE)
    /\ UNCHANGED <<modalDisplay, modalBuilt, modalDestroyed, isVisible, bodyOverflow, tweens,
                   lastCall>>
    /\ UNCHANGED <<now, countdownVars, fireworksVars, appVars, factsVars>>

\* Modal.showError(message), the message given or left out
ShowError ==
    /\ idle
    /\ \E message \in {NotGiven, Given(1)} :
           updateContent(IF message = NotGiven THEN ErrorText ELSE message[1], TRUE)
    /\ UNCHANGED <<modalDisplay, modalBuilt, modalDestroyed, isVisible, bodyOverflow, tweens,
                   lastCall>>
    /\ UNCHANGED <<now, countdownVars, fireworksVars, appVars, factsVars>>

\* Modal.showSuccess(message)
ShowSuccess ==
    /\ idle
    /\ \E message \in {1, 2} : updateContent(message, TRUE)
    /\ UNCHANGED <<modalDisplay, modalBuilt, modalDestroyed, isVisible, bodyOverflow, tweens,
                   lastCall>>
    /\ UNCHANGED <<now, countdownVars, fireworksVars, appVars, factsVars>>

\* Modal.destroy(): the listeners stay, as removeEventListener is handed
\* new functions; the references to the elements are dropped
ModalDestroy ==
    /\ idle
    /\ modalDestroyed' = TRUE
    /\ UNCHANGED modalBuilt
    /\ UNCHANGED <<modalDisplay, modalContent, isVisible, bodyOverflow, tweens,
                   contentTweens, lastCall>>
    /\ UNCHANGED <<now, countdownVars, fireworksVars, appVars, factsVars>>

\* the onStart callback of a show() tween; after destroy() it throws on
\* this.modal, past isVisible
ShowOnStart ==
    /\ idle
    /\ tweens.onStart > 0
    /\ tweens' = [tweens EXCEPT !.onStart = @ - 1]
    /\ isVisible' = TRUE
    /\ bodyOverflow' = IF modalDestroyed THEN bodyOverflow ELSE "hidden"
    /\ UNCHANGED <<modalDisplay, modalContent, modalBuilt, modalDestroyed, contentTweens, lastCall>>
    /\ UNCHANGED <<now, countdownVars, fireworksVars, appVars, factsVars>>

\* the onComplete callback of a hide() tween; after destroy() it throws on
\* this.modal at once
HideOnComplete ==
    /\ idle
    /\ tweens.onComplete > 0
    /\ tweens' = [tweens EXCEPT !.onComplete = @ - 1]
    /\ IF modalDestroyed
       THEN UNCHANGED <<modalDisplay, isVisible, bodyOverflow>>
       ELSE /\ modalDisplay' = "none"
            /\ isVisible' = FALSE
            /\ bodyOverflow' = ""
    /\ UNCHANGED <<modalContent, modalBuilt, modalDestroyed, contentTweens, lastCall>>
    /\ UNCHANGED <<now, countdownVars, fireworksVars, appVars, factsVars>>

\* the onComplete callback of the oldest tween of updateContent: it writes
\* the text; after destroy() it throws on this.contentElement
ContentOnComplete ==
    /\ idle
    /\ contentTweens # <<>>
    /\ contentTweens' = Tail(contentTweens)
    /\ modalContent' = IF modalDestroyed THEN modalContent ELSE Head(contentTweens)
    /\ UNCHANGED <<modalDisplay, modalBuilt, modalDestroyed, isVisible, bodyOverflow, tweens,
                   lastCall>>
    /\ UNCHANGED <<now, countdownVars, fireworksVars, appVars, factsVars>>

---------------------------------------------------------------------------
(* App and the entry point.  There is one App, window.app.  What its       *)
(* initialize() builds replaces what the model held before: the Countdown, *)
(* the FactsManager and the Modal at hand are from then on the App's.  An  *)
(* interval timer of the Countdown before stays, with its owner's target;  *)
(* a Modal before stays in oldModals while it can act.  The Fireworks at   *)
(* hand becomes the App's when the effects timer builds it; the one before *)
(* keeps to its own collections and the canvas, and is followed no more.   *)

\* whether the promise of App.initialize() rejects: its try block holds all
\* it does and its catch only logs, so it resolves whatever was thrown
initializeRejects == FALSE

\* whether Animations.initialize() throws: without gsap, on the first
\* element it finds to animate
animationsThrow == ~gsapLoaded /\ (ctaPresent \/ animatedPresent)

\* whether a Modal left behind can still act: a tween of its is running, or
\* it is visible and its listeners can hide it
modalActs(m) ==
    \/ m.onStart > 0
    \/ m.onComplete > 0
    \/ m.content # <<>>
    \/ m.isVisible /\ ~m.destroyed

\* the Modal at hand, as one left behind
thisModal ==
    [destroyed |-> modalDestroyed, isVisible |-> isVisible,
     onStart |-> tweens.onStart, onComplete |-> tweens.onComplete,
     content |-> contentTweens]

\* new Modal(): closed, with no tween; its listeners are added next to
\* those of the Modals before
newModal ==
    /\ IF modalActs(thisModal)
       THEN /\ Len(oldModals) < MaxSetups
            /\ oldModals' = Append(oldModals, thisModal)
       ELSE UNCHANGED oldModals
    /\ modalBuilt' = TRUE
    /\ modalDestroyed' = FALSE
    /\ isVisible' = FALSE
    /\ tweens' = [onStart |-> 0, onComplete |-> 0]
    /\ contentTweens' = <<>>

\* App.initialize() past its guard, up to its await, called by an async
\* function that awaits it (caller its name) or by a driver (caller <<>>).
\* new Countdown(), new FactsManager() and new Modal() come first; new
\* Animations() throws without window.matchMedia, and the catch ends the
\* call.  Else initializeEffects() sets its timer and initialize() returns
\* to its caller at the await.
initialize(caller) ==
    /\ targetDate' = defaultTargetDate(now)
    /\ updateInterval' = 1000
    /\ intervalId' = 0
    /\ destroyed' = FALSE
    /\ factsLength' = FactsCount
    /\ usedIndices' = {}
    /\ lastFact' = 0
    /\ newModal
    /\ lastCall' = "none"
    /\ IF ~matchMediaPresent
       THEN /\ appPhase' = "failed"
            /\ suspended' = caller
            /\ UNCHANGED effectsTimers
       ELSE /\ effectsTimers < MaxSetups
            /\ effectsTimers' = effectsTimers + 1
            \* what the continuation adds is followed
            /\ listeners < MaxSetups
            /\ Cardinality(intervalTimers) < MaxSetups
            /\ appPhase' = "initializing"
            /\ suspended' = <<"initialize">> \o caller

\* initializeApp() up to its await: window.app = new App(), which has no
\* component yet, and App.initialize()
InitializeApp ==
    /\ idle
    /\ appPhase = "loading"
    /\ appFireworks' = FALSE
    /\ initialize(<<"initializeApp">>)
    /\ UNCHANGED <<now, elementsPresent, intervalTimers, displayed, displayTweens,
                   newYearCount, specialEvents, lastQuery, fireworksVars, domVars,
                   fallbackRunning, listeners, pageHidden, userEvent, ctaTimers,
                   clickCount, modalDisplay, modalContent, bodyOverflow>>

\* App.initialize() called again after it failed: isInitialized is not set
AppInitialize ==
    /\ idle
    /\ appPhase = "failed"
    /\ initialize(<<>>)
    /\ UNCHANGED <<now, elementsPresent, appFireworks, intervalTimers, displayed,
                   displayTweens, newYearCount, specialEvents, lastQuery,
                   fireworksVars, domVars, fallbackRunning, listeners, pageHidden,
                   userEvent, ctaTimers, clickCount, modalDisplay, modalContent,
                   bodyOverflow>>

\* App.initialize() from its await on: setupEventListeners(), then
\* App.start(): Countdown.start(), which throws as update() does, then
\* Animations.initialize().  What is thrown the catch logs.
InitializeResumed ==
    /\ suspended # <<>>
    /\ Head(suspended) = "initialize"
    /\ suspended' = Tail(suspended)
    /\ listeners' = listeners + 1
    /\ startTimer(intervalId, targetDate, updateInterval, destroyed)
    /\ appPhase' = IF updateThrows(targetDate, destroyed) \/ animationsThrow
                   THEN "failed"
                   ELSE "initialized"
    /\ UNCHANGED <<now, targetDate, updateInterval, elementsPresent, appFireworks,
                   destroyed, lastQuery, loopVars, domVars, fallbackRunning,
                   effectsTimers, pageHidden, userEvent, ctaTimers, clickCount,
                   oldModals, modalVars, factsVars>>

\* initializeApp() from its await on, once the promise of App.initialize()
\* is settled: window.App = App, or initializeFallback() in its catch
InitializeAppResumed ==
    /\ suspended # <<>>
    /\ Head(suspended) = "initializeApp"
    /\ suspended' = Tail(suspended)
    /\ fallbackRunning' = (fallbackRunning \/ initializeRejects)
    /\ UNCHANGED <<now, countdownVars, fireworksVars, domVars, appPhase,
                   effectsTimers, listeners, pageHidden, userEvent, ctaTimers,
                   clickCount, oldModals, modalVars, factsVars>>

\* App.initialize() on an initialized App returns at once
AppInitializeAgain ==
    /\ idle
    /\ appPhase = "initialized"
    /\ UNCHANGED vars

\* App.initializeEffects() called from outside: one more 500 ms timer
AppInitializeEffects ==
    /\ idle
    /\ appPhase # "loading"
    /\ effectsTimers < MaxSetups
    /\ effectsTimers' = effectsTimers + 1
    /\ UNCHANGED <<now, countdownVars, fireworksVars, domVars, appPhase,
                   fallbackRunning, listeners, pageHidden, userEvent, ctaTimers,
                   clickCount, suspended, oldModals, modalVars, factsVars>>

\* App.setupEventListeners() called from outside: one more listener of each
\* kind
AppSetupEventListeners ==
    /\ idle
    /\ appPhase # "loading"
    /\ listeners < MaxSetups
    /\ listeners' = listeners + 1
    /\ UNCHANGED <<now, countdownVars, fireworksVars, domVars, appPhase,
                   fallbackRunning, effectsTimers, pageHidden, userEvent, ctaTimers,
                   clickCount, suspended, oldModals, modalVars, factsVars>>

\* App.start() called from outside: Countdown.start(), then
\* Animations.initialize(), which touches nothing the model holds
AppStart ==
    /\ idle
    /\ appPhase # "loading"
    /\ IF intervalId # 0
       THEN UNCHANGED <<intervalId, intervalTimers, displayed, displayTweens,
                        newYearCount, specialEvents, spawnTimers, celebrationTimers,
                        externalSpawn>>
       ELSE startTimer(intervalId, targetDate, updateInterval, destroyed)
    /\ UNCHANGED <<pageVars, now, targetDate, updateInterval, elementsPresent,
                   appFireworks, destroyed, lastQuery, loopVars>>

\* a 500 ms timer of initializeEffects: components.fireworks = new
\* Fireworks(), with the default options
EffectsTimer ==
    /\ idle
    /\ effectsTimers > 0
    /\ effectsTimers' = effectsTimers - 1
    /\ appFireworks' = TRUE
    /\ isRunning' = FALSE
    /\ animationId' = 0
    /\ frameRequests' = {}
    /\ fireworks' = <<>>
    /\ particles' = <<>>
    /\ spawnTimers' = EmptyBag
    /\ celebrationTimers' = <<>>
    /\ externalSpawn' = FALSE
    /\ settings' = defaults
    /\ UNCHANGED <<now, targetDate, updateInterval, elementsPresent, intervalId,
                   intervalTimers, destroyed, displayed, displayTweens, newYearCount,
                   specialEvents, lastQuery, canvasPresent, nullDeref,
                   domVars, appPhase, fallbackRunning, listeners, pageHidden,
                   userEvent, ctaTimers, clickCount, suspended, oldModals, modalVars, factsVars>>

\* handleVisibilityChange() on a page hidden or shown: pause() or resume()
\* on the Fireworks if the App has one
handleVisibilityChange(hidden) ==
    IF ~appFireworks
    THEN UNCHANGED fireworksVars
    ELSE IF hidden
    THEN \* pause()
         /\ isRunning' = FALSE
         /\ UNCHANGED <<canvasPresent, settings, animationId, frameRequests,
                        fireworks, particles, spawnTimers, celebrationTimers,
                        nullDeref, externalSpawn>>
    ELSE IF isRunning
    THEN UNCHANGED fireworksVars
    ELSE \* resume()
         /\ isRunning' = TRUE
         /\ loop(TRUE, frameRequests, fireworks, particles)
         /\ UNCHANGED <<canvasPresent, settings, celebrationTimers, externalSpawn>>

\* a visibilitychange event: the page is now hidden or now shown, and every
\* listener runs handleVisibilityChange(); what the first left, the next
\* leave as it is
VisibilityChange ==
    /\ idle
    /\ pageHidden' = ~pageHidden
    /\ userEvent' = TRUE
    /\ IF listeners = 0
       THEN UNCHANGED fireworksVars
       ELSE handleVisibilityChange(~pageHidden)
    /\ UNCHANGED <<now, countdownVars, domVars, appPhase, fallbackRunning,
                   effectsTimers, listeners, ctaTimers, clickCount, suspended, oldModals,
                   modalVars, factsVars>>

\* App.handleVisibilityChange() called from outside
HandleVisibilityChange ==
    /\ idle
    /\ appPhase # "loading"
    /\ userEvent' = TRUE
    /\ handleVisibilityChange(pageHidden)
    /\ UNCHANGED <<now, countdownVars, domVars, appPhase, fallbackRunning,
                   effectsTimers, listeners, pageHidden, ctaTimers, clickCount, suspended,
                   oldModals, modalVars, factsVars>>

\* whether handleCTAClick() throws: animateButtonClick() of the Animations,
\* which the App has when new Animations() did not throw, returns without
\* the button and throws without gsap, before a fact is drawn
handleCTAClickThrows == matchMediaPresent /\ ctaPresent /\ ~gsapLoaded

\* the draws of getRandomFact() a click is followed for: Math.random() at
\* the least and at the greatest value that end its loop, which draw the
\* first and the last fact not on record
clickDraws(used) ==
    {r \in getRandomFact(used, factsLength) :
        \/ \A other \in getRandomFact(used, factsLength) : r.fact <= other.fact
        \/ \A other \in getRandomFact(used, factsLength) : r.fact >= other.fact}

\* count runs of handleCTAClick() after one another, from the used indices,
\* the fact last drawn and the pending timers in drawn: what they may leave
RECURSIVE handleCTAClick(_, _)
handleCTAClick(drawn, count) ==
    IF count = 0 \/ handleCTAClickThrows
    THEN {drawn}
    ELSE UNION {handleCTAClick([used |-> r.used, fact |-> r.fact,
                                timers |-> Append(drawn.timers, r.fact)],
                               count - 1) :
                   r \in clickDraws(drawn.used)}

\* count runs of handleCTAClick(); what the event does to the Projectiles
\* is left to the caller
clicked(count) ==
    /\ idle
    /\ userEvent' = TRUE
    /\ IF handleCTAClickThrows
       THEN UNCHANGED <<ctaTimers, clickCount, factsVars>>
       ELSE /\ Len(ctaTimers) + count <= MaxTimers
            /\ clickCount < MaxClicks
            /\ clickCount' = clickCount + 1
            /\ \E drawn \in handleCTAClick([used |-> usedIndices, fact |-> lastFact,
                                           timers |-> ctaTimers], count) :
                   /\ usedIndices' = drawn.used
                   /\ lastFact' = drawn.fact
                   /\ ctaTimers' = drawn.timers
            /\ UNCHANGED factsLength
    /\ UNCHANGED <<now, countdownVars, canvasPresent, settings, isRunning, animationId,
                   frameRequests, particles, spawnTimers, celebrationTimers, domVars,
                   appPhase, fallbackRunning, effectsTimers, listeners, pageHidden,
                   suspended, oldModals, modalVars>>

\* a click on the .cta-button, a BUTTON element or another: every click
\* listener of the button runs handleCTAClick(), and the event goes on to
\* the document, where the Fireworks has its listener
ButtonClick ==
    /\ ctaPresent
    /\ listeners > 0
    /\ clicked(listeners)
    /\ \E button \in BOOLEAN : handleClick(300, 200, button)

\* App.handleCTAClick() called from outside
HandleCTAClick ==
    /\ appPhase # "loading"
    /\ clicked(1)
    /\ UNCHANGED <<fireworks, nullDeref, externalSpawn>>

\* the 200 ms timer of handleCTAClick: show(fact) on the App's Modal, then
\* spawnBurst(5) on the Fireworks if it exists
CTATimer ==
    /\ idle
    /\ ctaTimers # <<>>
    /\ ctaTimers' = Tail(ctaTimers)
    /\ show(Given(Head(ctaTimers)))
    /\ lastCall' = "show"
    /\ IF appFireworks /\ (gsapLoaded \/ ~modalHeld)
       THEN /\ spawnTimers' = spawnBurst(spawnTimers, 5)
            /\ externalSpawn' = TRUE
       ELSE UNCHANGED <<spawnTimers, externalSpawn>>
    /\ UNCHANGED <<now, countdownVars, loopVars, celebrationTimers, domVars,
                   appPhase, fallbackRunning, effectsTimers, listeners, pageHidden,
                   userEvent, clickCount, suspended, oldModals, modalBuilt, modalDestroyed, isVisible,
                   bodyOverflow, contentTweens, factsVars>>

\* hide() on a Modal left behind
hideOld(m) ==
    IF m.destroyed \/ ~m.isVisible \/ ~gsapLoaded
    THEN m
    ELSE [m EXCEPT !.onComplete = @ + 1]

\* whether the listener a Modal set for the event calls its hide(): that of
\* the close element does, that of the overlay when the target is
\* this.modal, which destroy() sets to null, and that of the key when the
\* Modal is visible
hideCalled(event, isDestroyed, visible) ==
    CASE event = "close" -> TRUE
      [] event = "overlay" -> ~isDestroyed
      [] event = "Escape" -> visible

\* a click on the close element (a BUTTON element or another) or on the
\* overlay, or the Escape key: the listeners of every Modal built on this
\* page run, and hide() on a Modal that is not visible, or that destroy()
\* ran on, returns at once.  A click goes on to the document, where the
\* Fireworks has its listener.
CloseEvent ==
    /\ idle
    /\ modalPresent
    /\ modalBuilt
    /\ \E event \in {"close", "overlay", "Escape"}, button \in BOOLEAN :
           /\ button => event = "close"
           /\ IF hideCalled(event, modalDestroyed, isVisible)
              THEN /\ hide
                   /\ lastCall' = "hide"
              ELSE UNCHANGED <<tweens, lastCall>>
           /\ IF event = "Escape"
              THEN UNCHANGED <<fireworks, nullDeref, externalSpawn>>
              ELSE handleClick(300, 200, button)
    /\ \A i \in 1..Len(oldModals) : hideOld(oldModals[i]).onComplete <= MaxTweens
    /\ oldModals' = [i \in 1..Len(oldModals) |-> hideOld(oldModals[i])]
    /\ UNCHANGED <<modalDisplay, modalContent, modalBuilt, modalDestroyed, isVisible,
                   bodyOverflow, contentTweens>>
    /\ UNCHANGED <<now, countdownVars, canvasPresent, settings, isRunning, animationId,
                   frameRequests, particles, spawnTimers, celebrationTimers, domVars,
                   appPhase, fallbackRunning, effectsTimers, listeners, pageHidden,
                   userEvent, ctaTimers, clickCount, suspended, factsVars>>

\* the Modals left behind once the i-th is as m: one that can act no more
\* is dropped
leftBehind(i, m) ==
    IF modalActs(m)
    THEN [oldModals EXCEPT ![i] = m]
    ELSE SubSeq(oldModals, 1, i - 1) \o SubSeq(oldModals, i + 1, Len(oldModals))

\* a tween callback of a Modal left behind: it acts on the elements of the
\* page as the callbacks of the Modal at hand do
OldModalCallback ==
    /\ idle
    /\ \E i \in 1..Len(oldModals) :
          LET m == oldModals[i]
          IN  \/ /\ m.onStart > 0
                 /\ oldModals' = leftBehind(i, [m EXCEPT !.onStart = @ - 1,
                                                         !.isVisible = TRUE])
                 /\ bodyOverflow' = IF m.destroyed THEN bodyOverflow ELSE "hidden"
                 /\ UNCHANGED <<modalDisplay, modalContent>>
              \/ /\ m.onComplete > 0
                 /\ IF m.destroyed
                    THEN /\ oldModals' = leftBehind(i, [m EXCEPT !.onComplete = @ - 1])
                         /\ UNCHANGED <<modalDisplay, bodyOverflow>>
                    ELSE /\ oldModals' = leftBehind(i, [m EXCEPT !.onComplete = @ - 1,
                                                                 !.isVisible = FALSE])
                         /\ modalDisplay' = "none"
                         /\ bodyOverflow' = ""
                 /\ UNCHANGED modalContent
              \/ /\ m.content # <<>>
                 /\ oldModals' = leftBehind(i, [m EXCEPT !.content = Tail(@)])
                 /\ modalContent' = IF m.destroyed THEN modalContent ELSE Head(m.content)
                 /\ UNCHANGED <<modalDisplay, bodyOverflow>>
    /\ UNCHANGED <<modalBuilt, modalDestroyed, isVisible, tweens, contentTweens, lastCall>>
    /\ UNCHANGED <<now, countdownVars, fireworksVars, domVars, appPhase,
                   fallbackRunning, effectsTimers, listeners, pageHidden, userEvent,
                   ctaTimers, clickCount, suspended, factsVars>>

---------------------------------------------------------------------------
(* Specifications *)

\* the page as it is loaded, before initializeApp(): the modal is closed and
\* no fact was drawn; built tells whether a driver has built a Modal on it
PageLoaded(gsap, media, modal, cta, animated, built) ==
    /\ gsapLoaded = gsap
    /\ matchMediaPresent = media
    /\ modalPresent = modal
    /\ ctaPresent = cta
    /\ animatedPresent = animated
    /\ appPhase = "loading"
    /\ fallbackRunning = FALSE
    /\ effectsTimers = 0
    /\ listeners = 0
    /\ pageHidden = FALSE
    /\ userEvent = FALSE
    /\ ctaTimers = <<>>
    /\ clickCount = 0
    /\ suspended = <<>>
    /\ oldModals = <<>>
    /\ modalDisplay = "none"
    /\ modalContent = 0
    /\ modalBuilt = built
    /\ modalDestroyed = FALSE
    /\ contentTweens = <<>>
    /\ isVisible = FALSE
    /\ bodyOverflow = ""
    /\ tweens = [onStart |-> 0, onComplete |-> 0]
    /\ lastCall = "none"
    /\ factsLength = FactsCount
    /\ usedIndices = {}
    /\ lastFact = 0

\* the instants the page of the App is loaded at: before the 1 January at
\* hand, and after it
LoadTimes == {TargetDate - HalfSecond, TargetDate + HalfSecond}

\* what the display elements read on the page as loaded: nothing, or 00
PageTexts == {AllReading(<<>>), AllReading(<<0, 0>>)}

\* the state after new Countdown(options), constructed at time t: the clock
\* may be constructed before or after its target
CountdownConstructed(t, target, interval, elements, app, texts) ==
    /\ now = t
    /\ targetDate = target
    /\ updateInterval = interval
    /\ elementsPresent = elements
    /\ appFireworks = app
    /\ intervalId = 0
    /\ intervalTimers = {}
    /\ destroyed = FALSE
    /\ displayed = IF elements THEN texts ELSE AllReading(<<>>)
    /\ displayTweens = <<>>
    /\ newYearCount = 0
    /\ specialEvents = [e \in EventNames |-> 0]
    /\ lastQuery = <<>>

\* the state after new Fireworks(options): initializeCanvas() finds the
\* canvas or not
FireworksConstructed(canvas, options) ==
    /\ canvasPresent = canvas
    /\ settings = options
    /\ isRunning = FALSE
    /\ animationId = 0
    /\ frameRequests = {}
    /\ fireworks = <<>>
    /\ particles = <<>>
    /\ spawnTimers = EmptyBag
    /\ celebrationTimers = <<>>
    /\ nullDeref = FALSE
    /\ externalSpawn = FALSE

\* the options a Fireworks is constructed with: the two targets, and a
\* palette of the first default colour
Options ==
    [simultaneousFireworks : 1..MaxTarget, fireworksPerBurst : 1..MaxTarget,
     colors : {<<0>>}]

InitCountdown ==
    \E t \in Instants, interval \in {HalfSecond, 1000}, elements \in BOOLEAN,
       app \in BOOLEAN, texts \in PageTexts :
        CountdownConstructed(t, Instant(TargetDate), interval, elements, app, texts)

InitFireworks ==
    \E canvas \in BOOLEAN, options \in Options :
        FireworksConstructed(canvas, options)

InitPage ==
    \E gsap \in BOOLEAN, media \in BOOLEAN, modal \in BOOLEAN, cta \in BOOLEAN,
       animated \in BOOLEAN :
        PageLoaded(gsap, media, modal, cta, animated, TRUE)

PageNext ==
    \/ InitializeApp
    \/ InitializeResumed
    \/ InitializeAppResumed
    \/ AppInitialize
    \/ AppInitializeAgain
    \/ AppInitializeEffects
    \/ AppSetupEventListeners
    \/ AppStart
    \/ EffectsTimer
    \/ VisibilityChange
    \/ HandleVisibilityChange
    \/ ButtonClick
    \/ HandleCTAClick
    \/ CTATimer
    \/ CloseEvent
    \/ OldModalCallback
    \/ ModalShow
    \/ ModalHide
    \/ ModalToggle
    \/ UpdateContent
    \/ ShowLoading
    \/ ShowError
    \/ ShowSuccess
    \/ ModalDestroy
    \/ ShowOnStart
    \/ HideOnComplete
    \/ ContentOnComplete
    \/ ResetUsage
    \/ AddFact
    \/ GetRandomFact

Init == InitCountdown /\ InitFireworks /\ InitPage

CountdownNext ==
    \/ Start
    \/ StartRunning
    \/ Stop
    \/ IntervalCallback
    \/ GetRemainingTime
    \/ Destroy
    \/ DisplayTween
    \/ CelebrationTimer
    \/ AdvanceTime

FireworksNext ==
    \/ FwStart
    \/ FwStartNoop
    \/ FwStop
    \/ FwPause
    \/ FwResume
    \/ FwResumeNoop
    \/ FrameCallback
    \/ SpawnFirework
    \/ SpawnBurstCall
    \/ SpawnTimer
    \/ Click
    \/ ClickNoop

Next == CountdownNext \/ FireworksNext \/ SpawnFireworkArgs \/ ClickAtEdge \/ PageNext

Spec == Init /\ [][Next]_vars

\* The two components share no state but the spawn timers the Countdown's
\* celebration hands to the Fireworks, so each is also followed alone, next
\* to one fixed construction of the other.

\* the Countdown alone, with the celebration it sets off
InitCountdownAlone ==
    /\ InitCountdown
    /\ FireworksConstructed(TRUE, [simultaneousFireworks |-> MaxTarget,
                                   fireworksPerBurst |-> MaxTarget,
                                   colors |-> <<0>>])
    /\ \E gsap \in BOOLEAN : PageLoaded(gsap, TRUE, TRUE, TRUE, TRUE, TRUE)

NextCountdownAlone ==
    \/ Start
    \/ StartRunning
    \/ Stop
    \/ IntervalCallback
    \/ Destroy
    \/ DisplayTween
    \/ CelebrationTimer
    \/ AdvanceTime

SpecCountdown == InitCountdownAlone /\ [][NextCountdownAlone]_vars

\* start() and stop() on a Countdown whose celebration has no Fireworks to
\* reach, with its ticks and the tweens of its display
InitStartStop ==
    /\ \E t \in Instants, interval \in {HalfSecond, 1000}, elements \in BOOLEAN :
           CountdownConstructed(t, Instant(TargetDate), interval, elements, FALSE,
                                AllReading(<<0, 0>>))
    /\ FireworksConstructed(TRUE, [simultaneousFireworks |-> MaxTarget,
                                   fireworksPerBurst |-> MaxTarget,
                                   colors |-> <<0>>])
    /\ \E gsap \in BOOLEAN : PageLoaded(gsap, TRUE, TRUE, TRUE, TRUE, TRUE)

NextStartStop ==
    \/ Start
    \/ StartRunning
    \/ Stop
    \/ IntervalCallback
    \/ Destroy
    \/ DisplayTween
    \/ AdvanceTime

SpecStartStop == InitStartStop /\ [][NextStartStop]_vars

\* getRemainingTime() asked as the clock moves on
NextRemaining ==
    \/ GetRemainingTime
    \/ AdvanceTime

SpecRemaining == InitCountdownAlone /\ [][NextRemaining]_vars

\* the Fireworks loop alone, driven through its public methods, its frame
\* and timer callbacks and clicks
InitFireworksAlone ==
    /\ InitFireworks
    /\ CountdownConstructed(TargetDate - 90061000, Instant(TargetDate), 1000, TRUE, TRUE, AllReading(<<0, 0>>))
    /\ PageLoaded(TRUE, TRUE, TRUE, TRUE, TRUE, TRUE)

SpecFireworks == InitFireworksAlone /\ [][FireworksNext]_vars

\* spawnFirework(x, y, color) with its arguments given or left out, called
\* directly and from clicks, on a loop with its canvas and a palette of two
\* colours
InitSpawn ==
    /\ FireworksConstructed(TRUE, [simultaneousFireworks |-> 1,
                                   fireworksPerBurst |-> 1,
                                   colors |-> <<0, 15>>])
    /\ CountdownConstructed(TargetDate - 90061000, Instant(TargetDate), 1000, TRUE, TRUE, AllReading(<<0, 0>>))
    /\ PageLoaded(TRUE, TRUE, TRUE, TRUE, TRUE, TRUE)

NextSpawn ==
    \/ FwStart
    \/ FrameCallback
    \/ SpawnTimer
    \/ SpawnFireworkArgs
    \/ Click
    \/ ClickAtEdge

SpecSpawn == InitSpawn /\ [][NextSpawn]_vars

\* end to end: a Fireworks with its canvas, simultaneousFireworks 1 and
\* fireworksPerBurst 1, is started and left to its frames and spawn timers
InitEndToEnd ==
    /\ FireworksConstructed(TRUE, [simultaneousFireworks |-> 1,
                                   fireworksPerBurst |-> 1,
                                   colors |-> <<0>>])
    /\ CountdownConstructed(TargetDate - 90061000, Instant(TargetDate), 1000, TRUE, TRUE, AllReading(<<0, 0>>))
    /\ PageLoaded(TRUE, TRUE, TRUE, TRUE, TRUE, TRUE)

NextEndToEnd ==
    \/ FwStart
    \/ FrameCallback
    \/ SpawnTimer

SpecEndToEnd == InitEndToEnd /\ [][NextEndToEnd]_vars

\* the simulated points alone: a loop with its canvas that spawns nothing by
\* itself (simultaneousFireworks 0) is started and ticks on, Projectiles
\* come from spawnFirework() calls, and every point lives out its life
InitPoints ==
    /\ FireworksConstructed(TRUE, [simultaneousFireworks |-> 0,
                                   fireworksPerBurst |-> 1,
                                   colors |-> <<0, 15>>])
    /\ CountdownConstructed(TargetDate - 90061000, Instant(TargetDate), 1000, TRUE, TRUE, AllReading(<<0, 0>>))
    /\ PageLoaded(TRUE, TRUE, TRUE, TRUE, TRUE, TRUE)

NextPoints ==
    \/ FwStart
    \/ FrameCallback
    \/ SpawnWhenRoom

SpecPoints == InitPoints /\ [][NextPoints]_vars

\* the same with the frame callback always coming: the loop keeps ticking
SpecPointsTicking == SpecPoints /\ WF_vars(FrameCallback)

\* getRemainingTime() alone, called once on a Countdown whose target is any
\* of the sampled durations away
InitUnits ==
    /\ \E d \in Durations : CountdownConstructed(TargetDate - d, Instant(TargetDate), 1000, TRUE, TRUE, AllReading(<<0, 0>>))
    /\ FireworksConstructed(TRUE, [simultaneousFireworks |-> MaxTarget,
                                   fireworksPerBurst |-> MaxTarget,
                                   colors |-> <<0>>])
    /\ PageLoaded(TRUE, TRUE, TRUE, TRUE, TRUE, TRUE)

NextUnits == lastQuery = <<>> /\ GetRemainingTime

SpecUnits == InitUnits /\ [][NextUnits]_vars

\* the App from the page load on, on every page, loaded before or after the
\* new year:
\* initializeApp() and its continuations, the effects timer, the ticks of
\* its Countdown and the tweens of the display, visibility changes, clicks
\* on the button with their timers and the modal they open, closed again
\* from the page, and the celebration and spawn timers of the Fireworks it
\* builds.  The first tick of that Fireworks on its canvas sets eight
\* timers, more than MaxTimers: the ticks of the loop are followed in
\* SpecFireworks.
InitApp ==
    \E t \in LoadTimes, elements \in BOOLEAN, canvas \in BOOLEAN, gsap \in BOOLEAN,
       media \in BOOLEAN, modal \in BOOLEAN, cta \in BOOLEAN, animated \in BOOLEAN :
        /\ CountdownConstructed(t, defaultTargetDate(t), 1000, elements, FALSE,
                                AllReading(<<0, 0>>))
        /\ FireworksConstructed(canvas, defaults)
        /\ PageLoaded(gsap, media, modal, cta, animated, FALSE)

NextApp ==
    \/ InitializeApp
    \/ InitializeResumed
    \/ InitializeAppResumed
    \/ EffectsTimer
    \/ VisibilityChange
    \/ ButtonClick
    \/ CTATimer
    \/ ShowOnStart
    \/ CloseEvent
    \/ HideOnComplete
    \/ IntervalCallback
    \/ DisplayTween
    \/ CelebrationTimer
    \/ SpawnTimer
    \/ AdvanceTime

SpecApp == InitApp /\ [][NextApp]_vars

\* the Modal alone, driven through its public methods and its tweens
InitModal ==
    /\ CountdownConstructed(TargetDate - 90061000, Instant(TargetDate), 1000, TRUE, FALSE, AllReading(<<0, 0>>))
    /\ FireworksConstructed(TRUE, [simultaneousFireworks |-> 1,
                                   fireworksPerBurst |-> 1,
                                   colors |-> <<0>>])
    /\ \E gsap \in BOOLEAN, modal \in BOOLEAN : PageLoaded(gsap, TRUE, modal, TRUE, TRUE, TRUE)

NextModal ==
    \/ ModalShow
    \/ ModalHide
    \/ ModalToggle
    \/ UpdateContent
    \/ ShowLoading
    \/ ShowError
    \/ ShowSuccess
    \/ ModalDestroy
    \/ ShowOnStart
    \/ HideOnComplete
    \/ ContentOnComplete

SpecModal == InitModal /\ [][NextModal]_vars

\* the FactsManager alone, driven through its public methods
InitFacts ==
    /\ CountdownConstructed(TargetDate - 90061000, Instant(TargetDate), 1000, TRUE, FALSE, AllReading(<<0, 0>>))
    /\ FireworksConstructed(TRUE, [simultaneousFireworks |-> 1,
                                   fireworksPerBurst |-> 1,
                                   colors |-> <<0>>])
    /\ PageLoaded(TRUE, TRUE, TRUE, TRUE, TRUE, TRUE)

NextFacts ==
    \/ GetRandomFact
    \/ ResetUsage
    \/ AddFact

SpecFacts == InitFacts /\ [][NextFacts]_vars

---------------------------------------------------------------------------
(* The claims *)

Zero == TimeUnits(0, 0, 0, 0)

\* C1: handleNewYear runs at most once over any run of start(), stop() and
\* interval ticks.
NewYearAtMostOnce == newYearCount <= 1

\* C2: while the Fireworks loop runs, at most one frame request is
\* outstanding: there is one tick chain, also after pause() and resume().
OneTickChain == isRunning => Cardinality(frameRequests) <= 1

\* C3: a Fireworks loop without its canvas never runs and never has a
\* handler touch the null canvas or context.
InertWithoutCanvas == ~canvasPresent => (~isRunning /\ ~nullDeref)

\* C4: a Countdown without its display elements never has a periodic timer.
InertWithoutElements == ~elementsPresent => (intervalTimers = {} /\ intervalId = 0)

\* C5: while the loop runs and only autoSpawn has spawned, the live
\* Projectiles never outnumber settings.simultaneousFireworks.
AutoSpawnWithinTarget ==
    (isRunning /\ ~externalSpawn) => Len(fireworks) <= settings.simultaneousFireworks

\* C6: a spawnBurst timer that fires while the loop is not running adds no
\* Projectile.
NoSpawnWhileNotRunning ==
    [][(SpawnTimer /\ ~isRunning) => fireworks' = fireworks]_vars

\* C7: every field getRemainingTime() returns is non-negative, and all are
\* zero once the target is reached.
RemainingNeverNegative ==
    \A i \in 1..Len(lastQuery) :
        LET t == lastQuery[i].time
        IN  /\ t.days >= 0 /\ t.hours >= 0 /\ t.minutes >= 0 /\ t.seconds >= 0
            /\ (lastQuery[i].years = 0 /\ lastQuery[i].diff <= 0) => t = Zero

\* C8: for a non-negative duration d the decomposition has 0 <= hours < 24,
\* 0 <= minutes < 60, 0 <= seconds < 60, days >= 0, and the four fields
\* add up to d less its part second; the decomposition of 0 is all zero.
DecomposeWithinRanges ==
    \A i \in 1..Len(lastQuery) :
        LET d == lastQuery[i].diff
            t == lastQuery[i].time
            whole == t.days * 86400000 + t.hours * 3600000 + t.minutes * 60000
                     + t.seconds * 1000
        IN  (lastQuery[i].years = 0 /\ d >= 0) =>
                /\ t.days >= 0
                /\ 0 <= t.hours /\ t.hours < 24
                /\ 0 <= t.minutes /\ t.minutes < 60
                /\ 0 <= t.seconds /\ t.seconds < 60
                /\ whole <= d /\ d < whole + 1000
                /\ d = 0 => t = Zero

\* C8 witness: a duration of 1 day 23:59:59.999 has been decomposed
DecomposedFullFields ==
    /\ lastQuery # <<>>
    /\ lastQuery[1].diff = 86400000 + 86399999
    /\ lastQuery[1].time = TimeUnits(1, 23, 59, 59)

\* C9: each special event is triggered at most once over any run.
SpecialEventAtMostOnce == \A e \in EventNames : specialEvents[e] <= 1

\* C10: a Countdown whose target has passed reports all-zero remaining time,
\* from its construction on.
ElapsedOnceTargetPassed ==
    (targetDate.years = 0 /\ now > targetDate.at) => getRemainingTime(now) = Zero

\* C11: start() and stop() are idempotent: at most one periodic timer is
\* active, and it is the one intervalId names; start() while a timer is
\* active sets no timer and runs no update, and stop() on a stopped clock
\* changes nothing.
StartStopIdempotent ==
    /\ [](/\ Cardinality(intervalTimers) <= 1
          /\ \A t \in intervalTimers : t.id = intervalId
          /\ intervalId # 0 => intervalTimers # {})
    /\ [][(intervalId # 0 /\ (Start \/ StartRunning)) => UNCHANGED vars]_vars
    /\ [][(intervalId = 0 /\ Stop) => UNCHANGED vars]_vars

\* C11 witness: start() after the target passed has run handleNewYear and
\* left one timer active
OneTimerAfterElapsedStart ==
    /\ newYearCount >= 1
    /\ intervalId # 0
    /\ Cardinality(intervalTimers) = 1

\* C12: start() on a loop that is not running and has its canvas sets
\* isRunning, leaves both collections empty and has one more frame request
\* outstanding, the one animationId names; start() on a running loop changes
\* nothing.
StartBeginsEmpty ==
    [][(FwStart \/ FwStartNoop) =>
          IF isRunning
          THEN UNCHANGED vars
          ELSE canvasPresent =>
                 /\ isRunning'
                 /\ fireworks' = <<>>
                 /\ particles' = <<>>
                 /\ animationId' \notin frameRequests
                 /\ frameRequests' = frameRequests \cup {animationId'}]_vars

\* C12 witness: a loop that had been spawned into has been started over a
\* frame request still outstanding, and is empty
StartedOverLeftovers ==
    /\ isRunning
    /\ externalSpawn
    /\ Cardinality(frameRequests) = 2
    /\ fireworks = <<>>
    /\ particles = <<>>

\* C13: stop() leaves isRunning false; while it is false a frame callback,
\* of whichever request was outstanding, runs no tick body: it moves no
\* point, sets no timer and requests no frame; and only start() and
\* resume() set isRunning again.
StoppedLoopRunsNoTick ==
    /\ [][FwStop => ~isRunning']_vars
    /\ [][(~isRunning /\ FrameCallback) =>
             /\ UNCHANGED <<isRunning, animationId, fireworks, particles, spawnTimers>>
             /\ frameRequests' \subseteq frameRequests]_vars
    /\ [][(~isRunning /\ isRunning') => (FwStart \/ FwResume)]_vars

\* C13 witness: stop() has cancelled the latest request of a loop holding a
\* Projectile while an earlier request is still outstanding
StoppedWithRequestOutstanding ==
    /\ ~isRunning
    /\ animationId = 0
    /\ frameRequests # {}
    /\ fireworks # <<>>

\* C14: pause() changes the running flag and nothing else; a frame callback
\* on the paused loop moves and removes no point; resume() clears neither
\* collection: its tick goes over the Projectiles and explosion points
\* pause() left.
PauseKeepsCollections ==
    /\ [][FwPause =>
             /\ ~isRunning'
             /\ UNCHANGED <<pageVars, now, countdownVars, canvasPresent, settings, animationId,
                            frameRequests, fireworks, particles, spawnTimers,
                            celebrationTimers, nullDeref, externalSpawn>>]_vars
    /\ [][(~isRunning /\ FrameCallback) => UNCHANGED <<fireworks, particles>>]_vars
    /\ [][FwResume =>
             IF canvasPresent
             THEN LET kept == updateParticles(particles)
                  IN  /\ fireworks' = updateFireworks(fireworks).fireworks
                      /\ Len(particles') >= Len(kept)
                      /\ SubSeq(particles', 1, Len(kept)) = kept
             ELSE UNCHANGED <<fireworks, particles>>]_vars

\* C14 witness: a paused loop, its frame request still outstanding, holds a
\* Projectile and explosion points
PausedWithLivePoints ==
    /\ ~isRunning
    /\ animationId # 0
    /\ animationId \in frameRequests
    /\ fireworks # <<>>
    /\ particles # <<>>

\* C15: on a loop with its canvas every spawnFirework(x, y, color), called
\* directly or by a click, appends exactly one Projectile, and the
\* Projectile has exactly the target coordinates and the colour that were
\* given, 0 included.
SpawnUsesGivenValues ==
    [][\A x \in {NotGiven} \cup {Given(v) : v \in Coordinates \cup {200, 300}},
          y \in {NotGiven} \cup {Given(v) : v \in Coordinates \cup {200, 300}},
          color \in {NotGiven} \cup {Given(h) : h \in Hues} :
            (SpawnFireworkAt(x, y, color) \/ (color = NotGiven /\ x # NotGiven
                                              /\ y # NotGiven /\ ClickAt(x[1], y[1])))
            => /\ Len(fireworks') = Len(fireworks) + 1
               /\ SubSeq(fireworks', 1, Len(fireworks)) = fireworks
               /\ LET p == fireworks'[Len(fireworks')]
                  IN  /\ x # NotGiven => p.targetX = x[1]
                      /\ y # NotGiven => p.targetY = y[1]
                      /\ color # NotGiven => p.color = color[1]]_vars

\* C16: spawnBurst(count) sets exactly count timers, the i-th (from 0) due
\* i * 150 ms after the call, and appends no Projectile itself; each of its
\* timers, when it fires, appends exactly one Projectile.
BurstSchedulesStaggered ==
    /\ [][\A count \in 1..MaxBurst :
             SpawnBurst(count) =>
               /\ UNCHANGED <<fireworks, particles>>
               /\ timersIn(spawnTimers') = timersIn(spawnTimers) + count
               /\ \E call \in BagToSet(spawnTimers') :
                      /\ call.at = now
                      /\ Len(call.delays) = count
                      /\ \A i \in 0..(count - 1) : call.delays[i + 1] = i * 150
                      /\ CopiesIn(call, spawnTimers') = CopiesIn(call, spawnTimers) + 1]_vars
    /\ [][SpawnTimer =>
             /\ timersIn(spawnTimers') = timersIn(spawnTimers) - 1
             /\ Len(fireworks') = Len(fireworks) + 1
             /\ SubSeq(fireworks', 1, Len(fireworks)) = fireworks
             /\ UNCHANGED particles]_vars

\* a step in which loop() runs a tick body: a frame callback on the running
\* loop, or the loop() call that ends start() and resume()
TickStep == (isRunning /\ FrameCallback) \/ FwStart \/ FwResume

\* C17: every step that changes the live Projectiles or the live explosion
\* points is a tick of the loop; no timer callback, click handler or other
\* entry point changes them.
MutationOnlyInTick ==
    [][(fireworks' # fireworks \/ particles' # particles) => TickStep]_vars

\* C17 as amended: a step that changes a collection is a tick of the loop,
\* or a spawnFirework from a spawn timer, a click or a direct call, which
\* appends one Projectile and does nothing else to the collections.
MutationInTickOrSpawn ==
    [][(fireworks' # fireworks \/ particles' # particles) =>
          \/ TickStep
          \/ /\ SpawnTimer \/ SpawnFirework \/ Click
             /\ particles' = particles
             /\ Len(fireworks') = Len(fireworks) + 1
             /\ SubSeq(fireworks', 1, Len(fireworks)) = fireworks]_vars

\* C17 witness: a stopped loop with no frame request left holds a
\* Projectile that only a spawn timer of autoSpawn can have appended, and
\* another such timer is pending
ProjectileFromTimer ==
    /\ ~isRunning
    /\ animationId = 0
    /\ frameRequests = {}
    /\ ~externalSpawn
    /\ spawnTimers # EmptyBag
    /\ fireworks # <<>>

\* C18: with simultaneousFireworks 1 and fireworksPerBurst 1, when the
\* first tick, the one start() runs, has finished, exactly one Projectile
\* is live.
FirstTickLeavesOneProjectile == [][FwStart => Len(fireworks') = 1]_vars

\* C18 as amended: when that first tick has finished no Projectile is live
\* and exactly one spawn timer, due at once, is pending; the Projectile is
\* appended when a spawn timer fires.
FirstTickSchedulesOneProjectile ==
    /\ [][FwStart => (/\ fireworks' = <<>>
                      /\ particles' = <<>>
                      /\ spawnTimers' = SetToBag({[at |-> now, delays |-> <<0>>]}))]_vars
    /\ [][SpawnTimer => Len(fireworks') = Len(fireworks) + 1]_vars

\* C18 witness: start() has returned: the loop runs, one frame request is
\* outstanding, one timer is pending and nothing is live
AfterFirstTick ==
    /\ isRunning
    /\ frameRequests = {1}
    /\ spawnTimers = SetToBag({[at |-> now, delays |-> <<0>>]})
    /\ fireworks = <<>>
    /\ particles = <<>>

\* C19: with simultaneousFireworks 1 and fireworksPerBurst 1, once a burst
\* has exploded the next Projectile is appended only when all explosion
\* points are removed: no Projectile is appended while one is live.
NextProjectileAfterFade ==
    [][Len(fireworks') > Len(fireworks) => particles = <<>>]_vars

\* C19 as amended: the tick in which the last live Projectile explodes
\* leaves the burst's explosion points live and sets the spawn timer of
\* the next Projectile at once.
RespawnInExplosionTick ==
    [][(FrameCallback /\ fireworks # <<>> /\ fireworks' = <<>>) =>
          /\ particles' # <<>>
          /\ timersIn(spawnTimers') = timersIn(spawnTimers) + 1]_vars

\* C19 witness: the Projectile has exploded, its explosion points are live
\* and the timer of the next Projectile is pending
RespawnPendingDuringBurst ==
    /\ isRunning
    /\ fireworks = <<>>
    /\ particles # <<>>
    /\ spawnTimers # EmptyBag

\* C20: when stop() returns, both the live Projectiles and the live
\* explosion points are empty.
StopLeavesEmpty == [][FwStop => (fireworks' = <<>> /\ particles' = <<>>)]_vars

\* a step in which loop() runs a tick body over the collections as they
\* are: a frame callback on the running loop, or the loop() call of resume()
TickRuns == canvasPresent /\ ((isRunning /\ FrameCallback) \/ FwResume)

\* C21: a tick first advances the Projectiles and removes those that
\* reached their target, then advances the explosion points, then
\* auto-spawns on the Projectiles left; and every point is drawn as its
\* update() of this tick leaves it.
AdvancedBeforeDrawn ==
    [][TickRuns =>
          /\ fireworks' = updateFireworks(fireworks).fireworks
          /\ timersIn(spawnTimers') =
                 timersIn(spawnTimers) + autoSpawn(Len(fireworks'))
          /\ \A i \in 1..Len(fireworks) :
                 drawnFireworks(fireworks)[i] = FireworkUpdate(fireworks[i]).currentDistance
          /\ \A i \in 1..Len(particles) :
                 drawnParticles(particles)[i] = ExplosionUpdate(particles[i]).alpha]_vars

\* C22: in the tick in which a Projectile reaches its target it leaves the
\* live Projectiles and exactly ParticleCount explosion points are added
\* at its position and with its colour; every other Projectile stays and
\* adds no explosion point.
ExplosionMakesBurst ==
    [][TickRuns =>
          LET moved   == [i \in 1..Len(fireworks) |-> FireworkUpdate(fireworks[i])]
              reached == {i \in 1..Len(fireworks) :
                             moved[i].currentDistance >= moved[i].distance}
              kept    == updateParticles(particles)
              new     == SubSeq(particles', Len(kept) + 1, Len(particles'))
          IN  /\ Len(fireworks') = Len(fireworks) - Cardinality(reached)
              /\ \A i \in (1..Len(fireworks)) \ reached :
                     \E j \in 1..Len(fireworks') : fireworks'[j] = moved[i]
              /\ SubSeq(particles', 1, Len(kept)) = kept
              /\ Len(new) = ParticleCount * Cardinality(reached)
              /\ \A i \in reached :
                     Cardinality({j \in 1..Len(new) :
                                     /\ new[j].origin = Position(moved[i])
                                     /\ new[j].color = moved[i].color})
                       = ParticleCount *
                           Cardinality({k \in reached :
                                           /\ Position(moved[k]) = Position(moved[i])
                                           /\ moved[k].color = moved[i].color})]_vars

\* C22 witness: the burst of a Projectile of the second colour that flew
\* past its first tick is live
FlownBurstLive ==
    \E j \in 1..Len(particles) :
        /\ particles[j].color = 15
        /\ particles[j].origin[3] > (2 * Scale * 102) \div 100

\* C23: every update() of a live Projectile leaves its travelled distance
\* strictly greater than before, the first leaves it at the first tick's
\* speed, 2 * 1.02, and the Projectiles a tick leaves live are updated ones.
DistanceStrictlyGrows ==
    [][TickRuns =>
          /\ \A i \in 1..Len(fireworks) :
                 LET u == FireworkUpdate(fireworks[i])
                 IN  /\ u.currentDistance > fireworks[i].currentDistance
                     /\ fireworks[i].currentDistance = 0 =>
                            /\ u.currentDistance = (2 * Scale * 102) \div 100
                            /\ u.currentDistance = u.speed
          /\ \A j \in 1..Len(fireworks') :
                 \E i \in 1..Len(fireworks) :
                     /\ fireworks'[j] = FireworkUpdate(fireworks[i])
                     /\ fireworks'[j].currentDistance > fireworks[i].currentDistance]_vars

\* C23 witness: a live Projectile has been updated more than once
ProjectileInSecondTick ==
    \E i \in 1..Len(fireworks) :
        fireworks[i].currentDistance > (2 * Scale * 102) \div 100

\* C24: the alpha of an explosion point never grows, lies in [0, 1] while
\* the point is live and when its update() has it removed, and the point is
\* removed by the first update() that leaves alpha <= 0.01.
AlphaWithinUnit ==
    \A i \in 1..Len(particles) :
        LET q == particles[i]
            u == ExplosionUpdate(q)
        IN  /\ q.alpha * 100 > Scale
            /\ q.alpha <= Scale
            /\ u.alpha <= q.alpha
            /\ u.alpha >= 0
            /\ ExplosionFaded(u) <=> u.alpha * 100 <= Scale

\* the distances Projectile p has travelled at the ticks that find it
\* live, from now on: updateFireworks() keeps it while its update() does
\* not report the target reached
RECURSIVE LiveStages(_)
LiveStages(p) ==
    {p.currentDistance}
        \cup (IF FireworkReached(FireworkUpdate(p))
              THEN {}
              ELSE LiveStages(FireworkUpdate(p)))

\* the distances a live Projectile can have travelled, whatever its target
Travelled ==
    UNION {LiveStages(FireworkParticle(0, 0, 0, d)) : d \in Distances}

\* the opacities a live explosion point can have, whatever it drew: its
\* first alpha less its decay for every update() so far, while that is
\* above 0.01
AlphaLevels ==
    UNION {{a - k * d : k \in 0..(a \div d)} \ {level \in 0..a : level * 100 <= Scale} :
              a \in Alphas, d \in Decays}

ProjectileAt(t) == \E i \in 1..Len(fireworks) : fireworks[i].currentDistance = t
ExplosionPointAt(a) == \E i \in 1..Len(particles) : particles[i].alpha = a

\* C25: while the loop keeps ticking every live Projectile and every live
\* explosion point is eventually removed, and none comes back.  A live
\* point is always at one of the finitely many stages of a life (a distance
\* travelled, an opacity); a point a tick keeps has moved on to a later
\* stage (further along, or more faded) and a point that enters a
\* collection is a new one at the first stage; and while the loop runs no
\* stage stays occupied for ever, so the ticks do come and no point is kept
\* past the last stage.
PointsEventuallyRemoved ==
    /\ [](\A i \in 1..Len(fireworks) : fireworks[i].currentDistance \in Travelled)
    /\ [](\A i \in 1..Len(particles) : particles[i].alpha \in AlphaLevels)
    /\ [][TickRuns =>
             /\ \A j \in 1..Len(fireworks') :
                    \E i \in 1..Len(fireworks) :
                        /\ fireworks'[j] = FireworkUpdate(fireworks[i])
                        /\ fireworks'[j].currentDistance > fireworks[i].currentDistance
             /\ \A j \in 1..Len(particles') :
                    \/ /\ j <= Len(particles)
                       /\ \E i \in j..Len(particles) :
                              /\ particles'[j] = ExplosionUpdate(particles[i])
                              /\ particles'[j].alpha < particles[i].alpha
                    \/ /\ particles'[j].alpha + particles'[j].decay \in Alphas
                       /\ \E i \in 1..Len(fireworks) :
                              /\ FireworkReached(FireworkUpdate(fireworks[i]))
                              /\ particles'[j].origin = Position(FireworkUpdate(fireworks[i]))]_vars
    /\ [][SpawnWhenRoom =>
             /\ particles' = particles
             /\ SubSeq(fireworks', 1, Len(fireworks)) = fireworks
             /\ \A j \in (Len(fireworks) + 1)..Len(fireworks') :
                    fireworks'[j].currentDistance = 0]_vars
    /\ \A t \in Travelled : (isRunning /\ ProjectileAt(t)) ~> ~ProjectileAt(t)
    /\ \A a \in AlphaLevels : (isRunning /\ ExplosionPointAt(a)) ~> ~ExplosionPointAt(a)

\* C25 witness: the loop runs over an explosion point that has faded down
\* to its last tick, with no Projectile left
LastTickOfBurst ==
    /\ isRunning
    /\ fireworks = <<>>
    /\ \E i \in 1..Len(particles) : ExplosionFaded(ExplosionUpdate(particles[i]))

\* C26: a Projectile whose target is its launch point is never kept by a
\* tick: its first update() moves it a full step along heading 0, reports
\* it as arrived, and the same tick replaces it by its burst.
ZeroDistanceExplodesAtOnce ==
    /\ [](\A i \in 1..Len(fireworks) :
              fireworks[i].distance = 0 => fireworks[i].currentDistance = 0)
    /\ [][TickRuns =>
             /\ \A j \in 1..Len(fireworks') : fireworks'[j].distance # 0
             /\ \A i \in 1..Len(fireworks) :
                    fireworks[i].distance = 0 =>
                        LET u == FireworkUpdate(fireworks[i])
                        IN  /\ u.currentDistance = (2 * Scale * 102) \div 100
                            /\ Cardinality({j \in 1..Len(particles') :
                                               /\ particles'[j].origin = Position(u)
                                               /\ particles'[j].color = u.color})
                                  >= ParticleCount]_vars

\* C26 witness: the burst of a Projectile that exploded on its first tick
ZeroDistanceBurstLive ==
    \E j \in 1..Len(particles) :
        particles[j].origin[3] = (2 * Scale * 102) \div 100

\* C27: once App.initialize() is through and the 500 ms timer has built the
\* Fireworks on a page with the canvas, the loop is running with a frame
\* requested, before any click or visibility change.
LoopRunsAfterEffects ==
    (appPhase = "initialized" /\ appFireworks /\ canvasPresent /\ ~userEvent)
        => (isRunning /\ frameRequests # {})

\* C28: when something thrown stopped App.initialize(), initializeApp(),
\* once it is through, has run initializeFallback().
FallbackOnFailure == (appPhase = "failed" /\ idle) => fallbackRunning

\* C29: whenever no tween callback of the modal is pending, the modal is
\* shown (display block, isVisible, the body's scroll locked) exactly if
\* the last of show() and hide() called was show().
ModalFollowsLastCall ==
    (modalHeld /\ gsapLoaded /\ tweens.onStart = 0 /\ tweens.onComplete = 0)
        => ((modalDisplay = "block" /\ isVisible /\ bodyOverflow = "hidden")
                <=> lastCall = "show")

\* C30: getRandomFact() never returns the fact it returned the call before
\* while that fact is on record as returned, and while not every fact has
\* been returned it returns none of those it has on record as returned.
FactsNeverRepeat ==
    [][GetRandomFact =>
          /\ lastFact \in usedIndices => lastFact' # lastFact
          /\ Cardinality(usedIndices) < factsLength => lastFact' \notin usedIndices]_vars

===========================================================================
